---- MODULE Spec2Model ----
(***************************************************************************)
(* EasyMyTicket: the email polling agent (poll / dedupe / thread-resolve / *)
(* route, with its checkpoint table) and the smart assignment agent        *)
(* (skill scoring, reranking fallback, workload tie-break, commit).        *)
(*                                                                         *)
(* Texts (skills, titles, keywords) are sequences of one-character         *)
(* strings so that lower(), "in", split() and re.findall(r'\w+') are       *)
(* computed as the code computes them.                                     *)
(***************************************************************************)
EXTENDS Integers, Sequences, FiniteSets, TLC

None == "None"

(***************************************************************************)
(* Python string primitives                                                *)
(***************************************************************************)
UpperLetters ==
  <<"A", "B", "C", "D", "E", "F", "G", "H", "I", "J", "K", "L", "M",
    "N", "O", "P", "Q", "R", "S", "T", "U", "V", "W", "X", "Y", "Z">>

LowerLetters ==
  <<"a", "b", "c", "d", "e", "f", "g", "h", "i", "j", "k", "l", "m",
    "n", "o", "p", "q", "r", "s", "t", "u", "v", "w", "x", "y", "z">>

Digits == {"0", "1", "2", "3", "4", "5", "6", "7", "8", "9"}

Whitespace == {" ", "\t", "\n"}

Range(s) == {s[i] : i \in DOMAIN s}

\* str.lower() on one character
LowerMap ==
  [c \in Range(UpperLetters) |->
     LowerLetters[CHOOSE i \in DOMAIN UpperLetters : UpperLetters[i] = c]]

LowerChar(c) == IF c \in DOMAIN LowerMap THEN LowerMap[c] ELSE c

\* str.lower()
Lower(s) == [i \in 1..Len(s) |-> LowerChar(s[i])]

\* Python's  a in b  on strings
IsSubstring(a, b) ==
  \E i \in 0..(Len(b) - Len(a)) : SubSeq(b, i + 1, i + Len(a)) = a

\* the character class \w of re
WordChars == Range(UpperLetters) \cup Range(LowerLetters) \cup Digits \cup {"_"}

IsWordChar(c) == c \in WordChars

\* The maximal runs of s without a separator character: each run starts where
\* the previous character is a separator (or at the start) and ends at the
\* first position from there whose next character is a separator (or the end).
RunsOf(s, isSep(_)) ==
  LET n == Len(s)
      starts == {i \in 1..n : ~isSep(s[i]) /\ (i = 1 \/ isSep(s[i - 1]))}
      ends == {j \in 1..n : ~isSep(s[j]) /\ (j = n \/ isSep(s[j + 1]))}
  IN {SubSeq(s, i, CHOOSE j \in ends : j >= i /\ \A k \in ends : k >= i => j <= k) :
        i \in starts}

IsSpace(c) == c \in Whitespace

IsNonWord(c) == ~IsWordChar(c)

\* str.split() (whitespace separated words; only membership is used)
Split(s) == RunsOf(s, IsSpace)

\* set(re.findall(r'\w+', s))
WordSet(s) == RunsOf(s, IsNonWord)

Min2(a, b) == IF a <= b THEN a ELSE b

(***************************************************************************)
(* Skill catalog: SmartAssignmentAgent.issue_type_skills                   *)
(***************************************************************************)
issue_type_skills(code) ==
  CASE code = <<"1", "1">> ->
         { <<"C", "l", "o", "u", "d">>,
           <<"E", "m", "a", "i", "l">>,
           <<"O", "f", "f", "i", "c", "e", " ", "3", "6", "5">>,
           <<"O", "n", "e", "D", "r", "i", "v", "e">>,
           <<"S", "h", "a", "r", "e", "P", "o", "i", "n", "t">>,
           <<"C", "l", "o", "u", "d", " ", "W", "o", "r", "k", "s", "p", "a", "c", "e">> }
    [] code = <<"4">> ->
         { <<"H", "a", "r", "d", "w", "a", "r", "e">>,
           <<"N", "e", "t", "w", "o", "r", "k">>,
           <<"A", "s", "s", "e", "s", "s", "m", "e", "n", "t">> }
    [] code = <<"5">> ->
         { <<"S", "o", "f", "t", "w", "a", "r", "e">>,
           <<"I", "n", "s", "t", "a", "l", "l", "a", "t", "i", "o", "n">>,
           <<"S", "a", "a", "S">> }
    [] code = <<"6">> ->
         { <<"N", "e", "t", "w", "o", "r", "k">>,
           <<"V", "P", "N">>,
           <<"R", "e", "m", "o", "t", "e", " ", "A", "c", "c", "e", "s", "s">> }
    [] code = <<"7">> ->
         { <<"A", "s", "s", "e", "s", "s", "m", "e", "n", "t">>,
           <<"N", "e", "t", "w", "o", "r", "k", " ", "A", "n", "a", "l", "y", "s", "i", "s">>,
           <<"S", "i", "t", "e", " ", "S", "u", "r", "v", "e", "y">> }
    [] code = <<"8">> ->
         { <<"S", "e", "r", "v", "e", "r">>,
           <<"A", "d", "m", "i", "n", "i", "s", "t", "r", "a", "t", "i", "o", "n">>,
           <<"D", "a", "t", "a", "b", "a", "s", "e">> }
    [] code = <<"9">> ->
         { <<"A", "c", "t", "i", "v", "e", " ", "D", "i", "r", "e", "c", "t", "o", "r", "y">>,
           <<"F", "i", "l", "e", " ", "P", "e", "r", "m", "i", "s", "s", "i", "o", "n", "s">>,
           <<"A", "c", "c", "e", "s", "s", " ", "C", "o", "n", "t", "r", "o", "l">> }
    [] code = <<"1", "3">> ->
         { <<"B", "a", "c", "k", "u", "p">>,
           <<"D", "A", "T", "T", "O">>,
           <<"A", "z", "u", "r", "e">>,
           <<"B", "a", "c", "k", "u", "p", " ", "M", "a", "n", "a", "g", "e", "m", "e", "n", "t">> }
    [] code = <<"1", "4">> ->
         { <<"C", "y", "b", "e", "r", "s", "e", "c", "u", "r", "i", "t", "y">>,
           <<"I", "n", "t", "r", "u", "s", "i", "o", "n">>,
           <<"S", "e", "c", "u", "r", "i", "t", "y">> }
    [] code = <<"1", "5">> ->
         { <<"E", "m", "a", "i", "l">>,
           <<"S", "e", "c", "u", "r", "i", "t", "y">>,
           <<"P", "a", "s", "s", "w", "o", "r", "d">> }
    [] code = <<"1", "8">> ->
         { <<"P", "r", "i", "n", "t", "e", "r">>,
           <<"P", "r", "i", "n", "t", "i", "n", "g">>,
           <<"H", "a", "r", "d", "w", "a", "r", "e">> }
    [] OTHER -> {}

UrgentSupport ==
  <<"U", "r", "g", "e", "n", "t", " ", "S", "u", "p", "p", "o", "r", "t">>

\* the priorities that add 'Urgent Support': ['high', 'critical', 'urgent', '1']
UrgentPriorities ==
  { <<"h", "i", "g", "h">>,
    <<"c", "r", "i", "t", "i", "c", "a", "l">>,
    <<"u", "r", "g", "e", "n", "t">>,
    <<"1">> }

common_words ==
  { <<"a", "n", "d">>, <<"t", "h", "e">>, <<"f", "o", "r">>,
    <<"w", "i", "t", "h">>, <<"t", "h", "i", "s">>, <<"t", "h", "a", "t">>,
    <<"f", "r", "o", "m">>, <<"h", "a", "v", "e">>, <<"h", "a", "s">> }

(***************************************************************************)
(* A classification is a dict: a function from some of the keys to values. *)
(* A value is a plain string  [kind |-> "str", v |-> text]  or a nested    *)
(* dict  [kind |-> "dict", v |-> text]  whose 'Value' entry is v.          *)
(***************************************************************************)
NoneVal == [kind |-> "none", v |-> <<>>]

\* dict.get(key)
DictGet(d, key) == IF key \in DOMAIN d THEN d[key] ELSE NoneVal

\* Python truthiness of a value: None and '' are falsy, a filled dict is not
ValTruthy(val) == val.kind = "dict" \/ (val.kind = "str" /\ val.v # <<>>)

\* _extract_required_skills.get_value:
\*   classification.get(key) or classification.get(key.upper()) or ...
\* followed by the unwrapping of a nested {'Value': ...}
get_value(classification, key, upperKey) ==
  LET a == DictGet(classification, key)
      b == DictGet(classification, upperKey)
      val == IF ValTruthy(a) THEN a ELSE IF ValTruthy(b) THEN b ELSE a
  IN IF val.kind = "none" THEN <<>> ELSE val.v

\* list(set(skills)): only the set of required skills is used afterwards
_extract_required_skills(classification) ==
  LET issuetype == get_value(classification, "issuetype", "ISSUETYPE")
      priority == get_value(classification, "priority", "PRIORITY")
  IN issue_type_skills(issuetype)
       \cup (IF priority # <<>> /\ Lower(priority) \in UrgentPriorities
             THEN {UrgentSupport} ELSE {})

(***************************************************************************)
(* SmartAssignmentAgent: scoring, reranking, selection                     *)
(***************************************************************************)
\* _match_skills without the partial credit: only exact matches count; C33
\* must tell it from _match_skills
_match_skills_exact_only(required_skills, tech_skills) ==
  IF required_skills = {} \/ tech_skills = <<>> THEN 0
  ELSE (Cardinality({skill \in required_skills :
                       IsSubstring(Lower(skill), Lower(tech_skills))}) * 70)
          \div Cardinality(required_skills)

\* _match_skills: int((matches/N)*70 + (partial/N)*30).  For N <= 8 the
\* float expression equals the integer quotient (70*matches + 30*partial) \div N.
_match_skills(required_skills, tech_skills) ==
  IF required_skills = {} \/ tech_skills = <<>> THEN 0
  ELSE
    LET tech_skills_lower == Lower(tech_skills)
        exact == {skill \in required_skills :
                    IsSubstring(Lower(skill), tech_skills_lower)}
        partial == {skill \in required_skills \ exact :
                      \E word \in Split(Lower(skill)) :
                         Len(word) > 3 /\ IsSubstring(word, tech_skills_lower)}
        total_required == Cardinality(required_skills)
    IN (Cardinality(exact) * 70 + Cardinality(partial) * 30) \div total_required

\* the minimum threshold of _score_technicians
MinSkillScore == 30

\* how many candidates _rerank_technicians keeps
TopCandidates == 5

\* the score given to a technician without skill text or without overlap
FloorScore == 20

\* the weight of the word overlap in _semantic_match_score
OverlapWeight == 60

\* the boost per required skill found in the skill text
SkillBoost == 10

\* the upper clamp of _semantic_match_score
MaxScore == 100

\* the dict appended to the scored list for one technician row
ScoredRow(tech, score) ==
  [tech_id |-> tech.tech_id, score |-> score, workload |-> tech.current_workload]

\* _score_technicians: the technicians scoring above the threshold, in order
_score_technicians(technicians, required_skills) ==
  LET scoredAll == [i \in 1..Len(technicians) |->
                      ScoredRow(technicians[i],
                                _match_skills(required_skills, technicians[i].skills))]
      Above(row) == row.score > MinSkillScore
  IN SelectSeq(scoredAll, Above)

\* _semantic_match_score with round() in place of int(); C34 must tell it
\* from _semantic_match_score
_semantic_match_score_rounded(ticket_text, tech_skills, required_skills) ==
  IF tech_skills = <<>> THEN FloorScore
  ELSE
    LET skills_lower == Lower(tech_skills)
        skill_words == WordSet(skills_lower) \ common_words
        overlap == Cardinality(skill_words \cap
                                 (WordSet(Lower(ticket_text)) \ common_words))
        total_skill_words == IF skill_words # {} THEN Cardinality(skill_words) ELSE 1
        base_score == IF overlap > 0
                      THEN (2 * overlap * OverlapWeight + total_skill_words)
                              \div (2 * total_skill_words)
                      ELSE FloorScore
        boost == SkillBoost * Cardinality({req_skill \in required_skills :
                                   IsSubstring(Lower(req_skill), skills_lower)})
    IN Min2(base_score + boost, MaxScore)

\* _semantic_match_score
_semantic_match_score(ticket_text, tech_skills, required_skills) ==
  IF tech_skills = <<>> THEN FloorScore
  ELSE
    LET skills_lower == Lower(tech_skills)
        skill_words == WordSet(skills_lower) \ common_words
        ticket_words == WordSet(Lower(ticket_text)) \ common_words
        overlap == Cardinality(skill_words \cap ticket_words)
        total_skill_words == IF skill_words # {} THEN Cardinality(skill_words) ELSE 1
        base_score == IF overlap > 0
                      THEN (overlap * OverlapWeight) \div total_skill_words
                      ELSE FloorScore
        boost == SkillBoost * Cardinality({req_skill \in required_skills :
                                   IsSubstring(Lower(req_skill), skills_lower)})
    IN Min2(base_score + boost, MaxScore)

\* KeyLess with the workload compared the wrong way round (the key
\* (-score, -workload)); C10 must tell it from KeyLess
KeyLess_workload_desc(a, b) ==
  a.score > b.score \/ (a.score = b.score /\ a.workload > b.workload)

\* the sort key  (-x['score'], x['workload'])  as a strict order
KeyLess(a, b) ==
  a.score > b.score \/ (a.score = b.score /\ a.workload < b.workload)

\* list.sort(key=lambda x: (-x['score'], x['workload'])): a stable sort, so rows
\* with equal keys keep their order.  The row at index i moves to the position
\* after all rows that sort before it.
SortScored(s) ==
  LET Before(j, i) == KeyLess(s[j], s[i]) \/ (~KeyLess(s[i], s[j]) /\ j < i)
      pos == [i \in DOMAIN s |-> 1 + Cardinality({j \in DOMAIN s : Before(j, i)})]
  IN [k \in DOMAIN s |-> s[CHOOSE i \in DOMAIN s : pos[i] = k]]

\* ticket_text of _rerank_technicians: f"{title} {description}"
TicketText(ticket_data) == ticket_data.title \o <<" ">> \o ticket_data.description

\* _rerank_technicians with the threshold of _score_technicians applied to the
\* rescored rows as well; C9 must tell it from _rerank_technicians
_rerank_technicians_with_threshold(technicians, ticket_data, required_skills) ==
  LET scored == [i \in 1..Len(technicians) |->
                   ScoredRow(technicians[i],
                             _semantic_match_score(TicketText(ticket_data),
                                                   technicians[i].skills,
                                                   required_skills))]
      Above(row) == row.score > MinSkillScore
      sorted == SortScored(SelectSeq(scored, Above))
  IN SubSeq(sorted, 1, Min2(TopCandidates, Len(sorted)))

\* _rerank_technicians: every technician rescored, sorted, top 5
_rerank_technicians(technicians, ticket_data, required_skills) ==
  LET scored == [i \in 1..Len(technicians) |->
                   ScoredRow(technicians[i],
                             _semantic_match_score(TicketText(ticket_data),
                                                   technicians[i].skills,
                                                   required_skills))]
      sorted == SortScored(scored)
  IN SubSeq(sorted, 1, Min2(TopCandidates, Len(sorted)))

\* assign_ticket up to the choice of best_match: the scored list after the final
\* sort, and the tech_id returned (None when no technician is available)
Selection(ticket_data, classification, available_techs) ==
  LET required_skills == _extract_required_skills(classification)
      primary == _score_technicians(available_techs, required_skills)
      scored_techs == IF available_techs = <<>> THEN <<>>
                      ELSE IF primary = <<>>
                           THEN _rerank_technicians(available_techs, ticket_data,
                                                    required_skills)
                           ELSE primary
      sorted == SortScored(scored_techs)
  IN [required_skills |-> required_skills,
      fallback |-> (available_techs # <<>> /\ primary = <<>>),
      scored_techs |-> sorted,
      tech_id |-> IF sorted = <<>> THEN None ELSE sorted[1].tech_id,
      score |-> IF sorted = <<>> THEN 0 ELSE sorted[1].score]

(***************************************************************************)
(* Bounds of the model                                                     *)
(***************************************************************************)
\* the largest current_workload a technician row starts with
MaxWorkload == 1

\* the number of messages that arrive in the mailbox
MaxMail == 2

\* the number of poll_once calls (scheduled cycles and manual triggers)
MaxPolls == 2

(***************************************************************************)
(* State                                                                   *)
(***************************************************************************)
VARIABLES
  technician_data,        \* table technician_data: tech_id -> row
  ticket_assignments,     \* table ticket_assignments: the rows in insertion order
  assign_log,             \* the assign_ticket calls made: arguments, query result, return
  inbox,                  \* the INBOX: message ids in arrival order
  seen,                   \* the messages that no longer match UNSEEN
  email_checkpoints,      \* table email_checkpoints: the rows in insertion order
  new_tickets,            \* table new_tickets: the set of rows
  ticket_communications,  \* table ticket_communications: the rows in insertion order
  calls,                  \* the number of poll_once calls begun
  organizations,          \* whether table organizations has a row
  stats,                  \* EmailPollingAgent.stats: the counters
  app_clock,              \* the last value read from datetime.now(), in ms
  db_clock,               \* the last value of CURRENT_TIMESTAMP a row was given
  pc,                     \* where each caller of poll_once stands
  emails,                 \* poll_once: the list fetch_unread_emails returned
  idx,                    \* poll_once: the index of the message in work
  cur,                    \* process_single_email: its local variables
  result,                 \* poll_once: result['processed'] and result['errors']
  running,                \* EmailPollingAgent.running
  thread,                 \* EmailPollingAgent.thread: the loop thread last started
  ledger,                 \* the workload updates committed, per technician
  credentials             \* whether SUPPORT_EMAIL and its app password are configured

TechIds == {"tech1", "tech2", "tech3"}

\* the statuses _get_available_technicians selects
AvailableStatuses == {"available", "wfh"}

Txt_network_vpn == <<"n", "e", "t", "w", "o", "r", "k", ",", " ", "v", "p", "n">>

Txt_printer_hardware ==
  <<"P", "r", "i", "n", "t", "e", "r", " ", "a", "n", "d", " ",
    "H", "a", "r", "d", "w", "a", "r", "e">>

Txt_vpn_down == <<"V", "P", "N", " ", "d", "o", "w", "n">>

Txt_printer_jam == <<"P", "r", "i", "n", "t", "e", "r", " ", "j", "a", "m">>

\* skill texts of the technician rows ('' is a row without skills)
SkillTexts == {<<>>, Txt_network_vpn, Txt_printer_hardware}

\* ticket_data values handed to assign_ticket
TicketInputs ==
  { [ticketnumber |-> <<"T", 1>>, title |-> Txt_vpn_down, description |-> <<>>],
    [ticketnumber |-> <<"T", 1>>, title |-> Txt_printer_jam, description |-> <<>>] }

\* classification values handed to assign_ticket: the empty dict, a flat one
\* and one with upper-case keys, a nested value and a high priority
ClassificationInputs ==
  { <<>>,
    [issuetype |-> [kind |-> "str", v |-> <<"4">>]],
    [ISSUETYPE |-> [kind |-> "dict", v |-> <<"1", "8">>],
     PRIORITY |-> [kind |-> "str", v |-> <<"H", "i", "g", "h">>]] }

\* the rows of technician_data with their key, as the queries return them
TechRow(td, t) ==
  [tech_id |-> t, skills |-> td[t].skills,
   current_workload |-> td[t].current_workload, status |-> td[t].status]

\* _get_available_technicians: the rows with status in ('available', 'wfh')
\* ORDER BY current_workload ASC; the order among equal workloads is the
\* database's choice, so every such order is a possible result
AvailableTechnicians(td) ==
  LET avail == {t \in DOMAIN td : td[t].status \in AvailableStatuses}
      n == Cardinality(avail)
  IN {[i \in 1..n |-> TechRow(td, f[i])] :
        f \in {g \in [1..n -> avail] :
                 /\ \A i, j \in 1..n : i # j => g[i] # g[j]
                 /\ \A i, j \in 1..n :
                       i < j => td[g[i]].current_workload <= td[g[j]].current_workload}}

\* _record_assignment: INSERT INTO ticket_assignments (the status column
\* defaults to 'assigned', unassigned_at to NULL)
_record_assignment(ta, ticket_number, tech_id, score) ==
  Append(ta, [ticket_number |-> ticket_number, tech_id |-> tech_id,
              assignment_status |-> "assigned", skill_match_score |-> score,
              unassigned_at |-> <<>>])

\* an UPDATE that raises current_workload and leaves no_tickets_assigned
_update_workload_current_only(td, tech_id, increment) ==
  [td EXCEPT ![tech_id].current_workload = @ + increment]

\* an UPDATE that writes one more than a workload of zero read earlier
_update_workload_from_stale_read(td, tech_id, increment) ==
  [td EXCEPT
     ![tech_id].current_workload = increment,
     ![tech_id].no_tickets_assigned = @ + (IF increment > 0 THEN increment ELSE 0)]

\* _update_workload(tech_id, increment): one UPDATE statement
_update_workload(td, tech_id, increment) ==
  [td EXCEPT
     ![tech_id].current_workload = @ + increment,
     ![tech_id].no_tickets_assigned = @ + (IF increment > 0 THEN increment ELSE 0)]

\* a decrement without the floor at zero
decrement_workload_no_floor(td, tech_id) ==
  [td EXCEPT ![tech_id].current_workload = @ - 1,
             ![tech_id].solved_tickets = @ + 1]

\* a decrement that leaves solved_tickets alone
decrement_workload_keeps_solved(td, tech_id) ==
  [td EXCEPT ![tech_id].current_workload = IF @ - 1 > 0 THEN @ - 1 ELSE 0]

\* decrement_workload(tech_id): one UPDATE statement,
\* current_workload = GREATEST(current_workload - 1, 0) and solved_tickets + 1
decrement_workload(td, tech_id) ==
  [td EXCEPT ![tech_id].current_workload = IF @ - 1 > 0 THEN @ - 1 ELSE 0,
             ![tech_id].solved_tickets = @ + 1]

\* assign_ticket up to best_match: for each result the query can give, what
\* the scoring and the sort make of it
AssignSelect(ticket_data, classification) ==
  {[available_techs |-> available_techs,
    sel |-> Selection(ticket_data, classification, available_techs)] :
     available_techs \in AvailableTechnicians(technician_data)}

\* assign_ticket from best_match on: _record_assignment, _update_workload
AssignCommit(ticket_number, tech_id, score) ==
  IF tech_id = None
  THEN UNCHANGED <<technician_data, ticket_assignments>>
  ELSE /\ ticket_assignments' =
            _record_assignment(ticket_assignments, ticket_number, tech_id, score)
       /\ technician_data' = _update_workload(technician_data, tech_id, 1)

(***************************************************************************)
(* The mailbox and the messages                                            *)
(***************************************************************************)
\* NULL in a ticket_number column, None for a ticket number
NULL == <<>>

Txt_re_vpn_down == <<"R", "e", ":", " ", "V", "P", "N", " ", "d", "o", "w", "n">>

\* The messages that can arrive, by their headers (angle brackets already
\* removed): m1 opens a conversation, m2 answers in it, m3 opens one from an
\* address that is not registered.
RawMessages ==
  [m1 |-> [Message_ID |-> "m1", In_Reply_To |-> "", References |-> <<>>,
           From |-> "user@corp", Subject |-> Txt_vpn_down,
           Body |-> <<"b", "1">>],
   m2 |-> [Message_ID |-> "m2", In_Reply_To |-> "m1", References |-> <<"m1">>,
           From |-> "user@corp", Subject |-> Txt_re_vpn_down,
           Body |-> <<"b", "2">>],
   m3 |-> [Message_ID |-> "m3", In_Reply_To |-> "", References |-> <<>>,
           From |-> "stranger@web", Subject |-> Txt_printer_jam,
           Body |-> <<"b", "3">>]]

MsgIds == DOMAIN RawMessages

\* parse_email: the thread headers of a message
parse_email(raw) ==
  LET references_list == raw.References
      message_id == raw.Message_ID
  IN [message_id |-> message_id,
      thread_id |-> IF references_list # <<>> THEN references_list[1] ELSE message_id,
      in_reply_to |-> raw.In_Reply_To,
      references |-> references_list,
      is_reply |-> (raw.In_Reply_To # "" \/ references_list # <<>>),
      sender_email |-> raw.From,
      subject |-> raw.Subject,
      description |-> raw.Body]

Email(m) == parse_email(RawMessages[m])

\* table user_data: user_mail -> user_id
user_data == [a \in {"user@corp"} |-> "u1"]

\* validate_sender: the user row of the address, None without one
validate_sender(sender_email) ==
  IF sender_email \in DOMAIN user_data THEN user_data[sender_email] ELSE None

\* get_user_organization: the companyid of the user's latest ticket, else the
\* first organization, else None
get_user_organization(user_id) ==
  IF \E t \in new_tickets : t.user_id = user_id THEN "company"
  ELSE IF organizations THEN "company"
  ELSE None

\* fetch_unread_emails: search UNSEEN, in mailbox order
fetch_unread_emails(mailbox) == SelectSeq(mailbox, LAMBDA m : m \notin seen)

(***************************************************************************)
(* The checkpoint table                                                    *)
(***************************************************************************)
\* is_duplicate: SELECT id FROM email_checkpoints WHERE message_id = %s
is_duplicate(message_id) ==
  message_id # "" /\ \E i \in DOMAIN email_checkpoints :
                        email_checkpoints[i].message_id = message_id

\* ThreadRows with the WHERE clause matching message_id instead of thread_id;
\* C5 must tell it from ThreadRows
ThreadRows_by_message_id(thread_id) ==
  {i \in DOMAIN email_checkpoints :
     /\ email_checkpoints[i].message_id = thread_id
     /\ email_checkpoints[i].ticket_number # NULL}

\* the rows get_thread_ticket's WHERE clause selects
ThreadRows(thread_id) ==
  {i \in DOMAIN email_checkpoints :
     /\ email_checkpoints[i].thread_id = thread_id
     /\ email_checkpoints[i].ticket_number # NULL}

\* get_thread_ticket with ORDER BY processed_at DESC; C7 must tell it from
\* get_thread_ticket
get_thread_ticket_latest(thread_id) ==
  IF thread_id = "" \/ ThreadRows(thread_id) = {} THEN {NULL}
  ELSE {email_checkpoints[i].ticket_number :
          i \in {j \in ThreadRows(thread_id) :
                   \A k \in ThreadRows(thread_id) :
                      email_checkpoints[j].processed_at
                        >= email_checkpoints[k].processed_at}}

\* get_thread_ticket: ORDER BY processed_at ASC LIMIT 1.  The set of the values
\* the query can return: rows with equal processed_at come in either order.
get_thread_ticket(thread_id) ==
  IF thread_id = "" \/ ThreadRows(thread_id) = {} THEN {NULL}
  ELSE {email_checkpoints[i].ticket_number :
          i \in {j \in ThreadRows(thread_id) :
                   \A k \in ThreadRows(thread_id) :
                      email_checkpoints[j].processed_at
                        <= email_checkpoints[k].processed_at}}

\* the row create_checkpoint inserts
CheckpointRow(email_data, ticket_number, action_taken, at) ==
  [message_id |-> email_data.message_id, thread_id |-> email_data.thread_id,
   sender_email |-> email_data.sender_email, ticket_number |-> ticket_number,
   email_type |-> IF email_data.is_reply THEN "reply" ELSE "new",
   action_taken |-> action_taken, processed_at |-> at]

\* create_checkpoint as a plain INSERT, without the ON CONFLICT clause and the
\* UNIQUE constraint behind it; C2 must tell it from create_checkpoint
create_checkpoint_plain_insert(rows, email_data, ticket_number, action_taken, at) ==
  Append(rows, CheckpointRow(email_data, ticket_number, action_taken, at))

\* create_checkpoint: INSERT ... ON CONFLICT (message_id) DO NOTHING
create_checkpoint(rows, email_data, ticket_number, action_taken, at) ==
  IF \E i \in DOMAIN rows : rows[i].message_id = email_data.message_id
  THEN rows
  ELSE Append(rows, CheckpointRow(email_data, ticket_number, action_taken, at))

(***************************************************************************)
(* EmailPollingAgent: poll_once and process_single_email, for the          *)
(* scheduled loop and for a manual trigger running beside it               *)
(***************************************************************************)
Pollers == {"loop", "manual"}

\* the locals of process_single_email before a message is taken up
CurInit ==
  [user_id |-> None, existing_ticket |-> NULL, ticket_number |-> NULL,
   assigned_tech_id |-> None, score |-> 0,
   cp_ticket |-> NULL, cp_action |-> "", inserted |-> "no",
   action |-> "", ticket |-> NULL]

ResultInit == [processed |-> <<>>, errors |-> <<>>]

\* what the classifier hands back in create_ticket_from_email for the
\* messages of this mailbox
ClassifyResults ==
  { [ISSUETYPE |-> [kind |-> "dict", v |-> <<"6">>],
     PRIORITY |-> [kind |-> "str", v |-> <<"H", "i", "g", "h">>]] }

Bump(counter) == [stats EXCEPT ![counter] = @ + 1]

CurMsg(p) == emails[p][idx[p]]

\* ticket_data of create_ticket_from_email
TicketData(p) ==
  [ticketnumber |-> cur[p].ticket_number,
   title |-> Email(CurMsg(p)).subject,
   description |-> Email(CurMsg(p)).description]

\* The messages that arrived since the mailbox was last looked at: any new
\* messages, in any order (the mailbox is seen by the agent only when it fetches)
Arrivals ==
  LET fresh == {m \in MsgIds : \A i \in DOMAIN inbox : inbox[i] # m}
      room == MaxMail - Len(inbox)
  IN UNION {{a \in [1..n -> fresh] : \A i, j \in 1..n : i # j => a[i] # a[j]} :
              n \in 0..Min2(room, Cardinality(fresh))}

\* a poll_once that gives the agent up when the mailbox cannot be reached
PollConnectFails_stopping_agent(p) ==
  /\ pc[p] = "idle"
  /\ calls < MaxPolls
  /\ calls' = calls + 1
  /\ running' = FALSE
  /\ result' = [result EXCEPT ![p] =
                  [processed |-> <<>>, errors |-> <<"Failed to connect to IMAP">>]]
  /\ UNCHANGED <<credentials, thread, ledger, technician_data, ticket_assignments, assign_log, inbox, seen,
                 email_checkpoints, new_tickets, ticket_communications,
                 organizations, stats, app_clock, db_clock, pc, emails, idx, cur>>

\* poll_once: connect() fails, the call returns its result at once
PollConnectFails(p) ==
  /\ pc[p] = "idle"
  /\ calls < MaxPolls
  /\ calls' = calls + 1
  /\ result' = [result EXCEPT ![p] =
                  [processed |-> <<>>, errors |-> <<"Failed to connect to IMAP">>]]
  /\ UNCHANGED <<credentials, running, thread, ledger, technician_data, ticket_assignments, assign_log, inbox, seen,
                 email_checkpoints, new_tickets, ticket_communications,
                 organizations, stats, app_clock, db_clock, pc, emails, idx, cur>>

\* poll_once: connect(), which needs the credentials, and
\* fetch_unread_emails(); with nothing unread the cycle ends here
PollFetch(p) ==
  /\ pc[p] = "idle"
  /\ credentials
  /\ calls < MaxPolls
  /\ calls' = calls + 1
  /\ \E arrived \in Arrivals : inbox' = inbox \o arrived
  /\ result' = [result EXCEPT ![p] = ResultInit]
  /\ emails' = [emails EXCEPT ![p] = fetch_unread_emails(inbox')]
  /\ cur' = [cur EXCEPT ![p] = CurInit]
  /\ IF emails'[p] = <<>>
     THEN /\ stats' = Bump("total_polls")
          /\ UNCHANGED <<pc, idx>>
     ELSE /\ pc' = [pc EXCEPT ![p] = "start"]
          /\ idx' = [idx EXCEPT ![p] = 1]
          /\ UNCHANGED stats
  /\ UNCHANGED <<credentials, running, thread, ledger, technician_data, ticket_assignments, assign_log, seen,
                 email_checkpoints, new_tickets, ticket_communications,
                 organizations, app_clock, db_clock>>

\* create_ticket_from_email begins: the ticket number is taken from the clock
BeginCreate(c, now) == [c EXCEPT !.ticket_number = <<"T", now>>]

\* What datetime.now() can read, to the millisecond, when poller p starts a
\* ticket: a later millisecond than the last one read, or the same one while
\* another poller is still at work on the ticket it started in it.
Now(p) ==
  {app_clock + 1} \cup
  {t \in {app_clock} : \E q \in Pollers \ {p} : cur[q].ticket_number = <<"T", t>>}

\* process_single_email up to the routing of a new message: is_duplicate,
\* validate_sender, get_user_organization; a reply goes on to the thread lookup,
\* any other message into create_ticket_from_email
CheckDuplicate(p) ==
  /\ pc[p] = "start"
  /\ LET email_data == Email(CurMsg(p))
         user == validate_sender(email_data.sender_email)
     IN IF is_duplicate(email_data.message_id)
        THEN /\ cur' = [cur EXCEPT ![p].action = "skipped"]
             /\ pc' = [pc EXCEPT ![p] = "finish"]
             /\ UNCHANGED app_clock
        ELSE IF user = None
        THEN /\ cur' = [cur EXCEPT ![p].cp_action = "invalid_sender",
                                   ![p].action = "invalid"]
             /\ pc' = [pc EXCEPT ![p] = "checkpoint"]
             /\ UNCHANGED app_clock
        ELSE IF get_user_organization(user) = None
        THEN /\ cur' = [cur EXCEPT ![p].user_id = user,
                                   ![p].cp_action = "no_organization",
                                   ![p].action = "invalid"]
             /\ pc' = [pc EXCEPT ![p] = "checkpoint"]
             /\ UNCHANGED app_clock
        ELSE IF email_data.is_reply
        THEN /\ cur' = [cur EXCEPT ![p].user_id = user]
             /\ pc' = [pc EXCEPT ![p] = "thread"]
             /\ UNCHANGED app_clock
        ELSE \E now \in Now(p) :
                /\ app_clock' = now
                /\ cur' = [cur EXCEPT ![p] =
                             BeginCreate([cur[p] EXCEPT !.user_id = user], now)]
                /\ pc' = [pc EXCEPT ![p] = "assign"]
  /\ UNCHANGED <<credentials, running, thread, ledger, technician_data, ticket_assignments, assign_log, inbox, seen,
                 email_checkpoints, new_tickets, ticket_communications, calls,
                 organizations, stats, db_clock, emails, idx, result>>

\* LookupThread with every reply sent to add_email_to_ticket, whatever the
\* lookup found; C8 must tell it from LookupThread
LookupThread_unchecked(p) ==
  /\ pc[p] = "thread"
  /\ \E existing_ticket \in get_thread_ticket(Email(CurMsg(p)).thread_id) :
       cur' = [cur EXCEPT ![p].existing_ticket = existing_ticket]
  /\ pc' = [pc EXCEPT ![p] = "append"]
  /\ UNCHANGED <<credentials, running, thread, ledger, technician_data, ticket_assignments, assign_log, inbox, seen,
                 email_checkpoints, new_tickets, ticket_communications, calls,
                 organizations, stats, app_clock, db_clock, emails, idx, result>>

\* process_single_email: a reply looks up the ticket of its thread; with a
\* ticket it goes on to add_email_to_ticket, without one into
\* create_ticket_from_email
LookupThread(p) ==
  /\ pc[p] = "thread"
  /\ \E existing_ticket \in get_thread_ticket(Email(CurMsg(p)).thread_id) :
       IF existing_ticket # NULL
       THEN /\ cur' = [cur EXCEPT ![p].existing_ticket = existing_ticket]
            /\ pc' = [pc EXCEPT ![p] = "append"]
            /\ UNCHANGED app_clock
       ELSE \E now \in Now(p) :
               /\ app_clock' = now
               /\ cur' = [cur EXCEPT ![p] = BeginCreate(cur[p], now)]
               /\ pc' = [pc EXCEPT ![p] = "assign"]
  /\ UNCHANGED <<credentials, running, thread, ledger, technician_data, ticket_assignments, assign_log, inbox, seen,
                 email_checkpoints, new_tickets, ticket_communications, calls,
                 organizations, stats, db_clock, emails, idx, result>>

\* the row add_email_to_ticket inserts
CommunicationRow(p) ==
  [ticket_number |-> cur[p].existing_ticket, sender_id |-> cur[p].user_id,
   message_id |-> Email(CurMsg(p)).message_id]

\* add_email_to_ticket succeeds: the communication is stored, the ticket's
\* lastactivitydate is set, the message goes on to its checkpoint
AppendToTicket(p) ==
  /\ pc[p] = "append"
  /\ ticket_communications' = Append(ticket_communications, CommunicationRow(p))
  /\ cur' = [cur EXCEPT ![p].cp_ticket = cur[p].existing_ticket,
                        ![p].cp_action = "ticket_updated",
                        ![p].action = "ticket_updated",
                        ![p].ticket = cur[p].existing_ticket]
  /\ pc' = [pc EXCEPT ![p] = "checkpoint"]
  /\ UNCHANGED <<credentials, running, thread, ledger, technician_data, ticket_assignments, assign_log, inbox, seen,
                 email_checkpoints, new_tickets, calls,
                 organizations, stats, app_clock, db_clock, emails, idx, result>>

\* add_email_to_ticket fails (returns False), at the INSERT or, with the
\* communication already stored, at the UPDATE: ('error', None), no checkpoint
AppendFails(p) ==
  /\ pc[p] = "append"
  /\ \/ UNCHANGED ticket_communications
     \/ ticket_communications' = Append(ticket_communications, CommunicationRow(p))
  /\ cur' = [cur EXCEPT ![p].action = "error"]
  /\ pc' = [pc EXCEPT ![p] = "finish"]
  /\ UNCHANGED <<credentials, running, thread, ledger, technician_data, ticket_assignments, assign_log, inbox, seen,
                 email_checkpoints, new_tickets, calls,
                 organizations, stats, app_clock, db_clock, emails, idx, result>>

\* create_ticket_from_email, steps 2 to 5: the classifier answers and
\* assign_ticket picks a technician, records the assignment and raises the
\* workload
AssignTicket(p) ==
  /\ pc[p] = "assign"
  /\ \E classification \in ClassifyResults :
     \E call \in AssignSelect(TicketData(p), classification) :
       /\ cur' = [cur EXCEPT ![p].assigned_tech_id = call.sel.tech_id,
                             ![p].score = call.sel.score]
       /\ AssignCommit(cur[p].ticket_number, call.sel.tech_id, call.sel.score)
  /\ pc' = [pc EXCEPT ![p] = "insert"]
  /\ UNCHANGED <<credentials, running, thread, ledger, assign_log, inbox, seen,
                 email_checkpoints, new_tickets, ticket_communications, calls,
                 organizations, stats, app_clock, db_clock, emails, idx, result>>

\* the row insert_ticket stores
TicketRow(p) ==
  [ticketnumber |-> cur[p].ticket_number, description |-> Email(CurMsg(p)).description,
   user_id |-> cur[p].user_id, assigned_tech_id |-> cur[p].assigned_tech_id]

\* create_ticket_from_email, step 6: insert_ticket stores the row
\* (ticketnumber is UNIQUE) and the ticket number is returned
InsertTicket(p) ==
  /\ pc[p] = "insert"
  /\ \A t \in new_tickets : t.ticketnumber # cur[p].ticket_number
  /\ new_tickets' = new_tickets \cup {TicketRow(p)}
  /\ cur' = [cur EXCEPT ![p].cp_ticket = cur[p].ticket_number,
                        ![p].cp_action = "ticket_created",
                        ![p].action = "ticket_created",
                        ![p].ticket = cur[p].ticket_number]
  /\ pc' = [pc EXCEPT ![p] = "checkpoint"]
  /\ UNCHANGED <<credentials, running, thread, ledger, technician_data, ticket_assignments, assign_log, inbox, seen,
                 email_checkpoints, ticket_communications, calls,
                 organizations, stats, app_clock, db_clock, emails, idx, result>>

\* insert_ticket raises (the ticket number is taken, or the statement fails):
\* create_ticket_from_email returns None
InsertFails(p) ==
  /\ pc[p] = "insert"
  /\ cur' = [cur EXCEPT ![p].cp_ticket = NULL,
                        ![p].cp_action = "creation_failed",
                        ![p].action = "error"]
  /\ pc' = [pc EXCEPT ![p] = "checkpoint"]
  /\ UNCHANGED <<credentials, running, thread, ledger, technician_data, ticket_assignments, assign_log, inbox, seen,
                 email_checkpoints, new_tickets, ticket_communications, calls,
                 organizations, stats, app_clock, db_clock, emails, idx, result>>

\* process_single_email: create_checkpoint.  processed_at is the database's
\* CURRENT_TIMESTAMP; every statement is its own transaction on the agent's one
\* connection, so a later row has a later timestamp.
WriteCheckpoint(p) ==
  /\ pc[p] = "checkpoint"
  /\ email_checkpoints' =
       create_checkpoint(email_checkpoints, Email(CurMsg(p)),
                         cur[p].cp_ticket, cur[p].cp_action, db_clock + 1)
  /\ IF email_checkpoints' # email_checkpoints
     THEN /\ db_clock' = db_clock + 1
          /\ cur' = [cur EXCEPT ![p].inserted = "yes"]
     ELSE /\ UNCHANGED db_clock
          /\ cur' = [cur EXCEPT ![p].inserted = "conflict"]
  /\ pc' = [pc EXCEPT ![p] = "finish"]
  /\ UNCHANGED <<credentials, running, thread, ledger, technician_data, ticket_assignments, assign_log, inbox, seen,
                 new_tickets, ticket_communications, calls,
                 organizations, stats, app_clock, emails, idx, result>>

\* a process_single_email that counts a skipped duplicate as an error
OutcomeCounter_skipped_as_error(action) ==
  CASE action = "ticket_updated" -> {"tickets_updated"}
    [] action = "ticket_created" -> {"tickets_created"}
    [] action \in {"error", "skipped"} -> {"errors"}
    [] OTHER -> {}

\* a process_single_email that counts a rejected sender as an error
OutcomeCounter_invalid_as_error(action) ==
  CASE action = "skipped" -> {"duplicates_skipped"}
    [] action = "ticket_updated" -> {"tickets_updated"}
    [] action = "ticket_created" -> {"tickets_created"}
    [] action \in {"error", "invalid"} -> {"errors"}
    [] OTHER -> {}

\* a process_single_email that does not count its errors
OutcomeCounter_errors_uncounted(action) ==
  CASE action = "skipped" -> {"duplicates_skipped"}
    [] action = "ticket_updated" -> {"tickets_updated"}
    [] action = "ticket_created" -> {"tickets_created"}
    [] OTHER -> {}

\* the counter process_single_email raises for an outcome
OutcomeCounter(action) ==
  CASE action = "skipped" -> {"duplicates_skipped"}
    [] action = "ticket_updated" -> {"tickets_updated"}
    [] action = "ticket_created" -> {"tickets_created"}
    [] action = "error" -> {"errors"}
    [] OTHER -> {}

\* a poll_once that marks every message it has handled as processed, whatever
\* the outcome; C35 must tell it from FinishMessage
FinishMessage_marks_any_outcome(p, markOk) ==
  /\ pc[p] = "finish"
  /\ LET action == cur[p].action
         counters == OutcomeCounter(action) \cup {"emails_processed"}
                       \cup (IF idx[p] = Len(emails[p]) THEN {"total_polls"} ELSE {})
     IN /\ stats' = [c \in DOMAIN stats |->
                       IF c \in counters THEN stats[c] + 1 ELSE stats[c]]
        /\ result' = [result EXCEPT ![p].processed =
                        Append(@, [message_id |-> CurMsg(p), action |-> action,
                                   ticket |-> cur[p].ticket])]
        /\ seen' = IF markOk THEN seen \cup {CurMsg(p)} ELSE seen
  /\ IF idx[p] = Len(emails[p])
     THEN /\ pc' = [pc EXCEPT ![p] = "idle"]
          /\ UNCHANGED idx
     ELSE /\ pc' = [pc EXCEPT ![p] = "start"]
          /\ idx' = [idx EXCEPT ![p] = @ + 1]
  /\ cur' = [cur EXCEPT ![p] = CurInit]
  /\ UNCHANGED <<credentials, running, thread, ledger, technician_data, ticket_assignments, assign_log, inbox,
                 email_checkpoints, new_tickets, ticket_communications, calls,
                 organizations, app_clock, db_clock, emails>>

\* process_single_email returns; poll_once notes the outcome, marks the message
\* as processed after ticket_created / ticket_updated (markOk: whether the
\* store of the flag takes effect), counts it and goes on; after the last
\* message the cycle ends
FinishMessage(p, markOk) ==
  /\ pc[p] = "finish"
  /\ LET action == cur[p].action
         counters == OutcomeCounter(action) \cup {"emails_processed"}
                       \cup (IF idx[p] = Len(emails[p]) THEN {"total_polls"} ELSE {})
     IN /\ stats' = [c \in DOMAIN stats |->
                       IF c \in counters THEN stats[c] + 1 ELSE stats[c]]
        /\ result' = [result EXCEPT ![p].processed =
                        Append(@, [message_id |-> CurMsg(p), action |-> action,
                                   ticket |-> cur[p].ticket])]
        /\ IF action \in {"ticket_created", "ticket_updated"} /\ markOk
           THEN seen' = seen \cup {CurMsg(p)}
           ELSE seen' = seen
  /\ IF idx[p] = Len(emails[p])
     THEN /\ pc' = [pc EXCEPT ![p] = "idle"]
          /\ UNCHANGED idx
     ELSE /\ pc' = [pc EXCEPT ![p] = "start"]
          /\ idx' = [idx EXCEPT ![p] = @ + 1]
  /\ cur' = [cur EXCEPT ![p] = CurInit]
  /\ UNCHANGED <<credentials, running, thread, ledger, technician_data, ticket_assignments, assign_log, inbox,
                 email_checkpoints, new_tickets, ticket_communications, calls,
                 organizations, app_clock, db_clock, emails>>

\* a poll_once whose for loop has no try of its own: the exception of one
\* message ends the cycle
ProcessRaises_aborting_cycle(p) ==
  /\ pc[p] = "start"
  /\ stats' = [c \in DOMAIN stats |->
                 IF c \in {"errors", "total_polls"} THEN stats[c] + 1 ELSE stats[c]]
  /\ result' = [result EXCEPT ![p].errors = Append(@, "exception")]
  /\ pc' = [pc EXCEPT ![p] = "idle"]
  /\ cur' = [cur EXCEPT ![p] = CurInit]
  /\ UNCHANGED <<credentials, running, thread, ledger, technician_data, ticket_assignments, assign_log, inbox,
                 seen, email_checkpoints, new_tickets, ticket_communications, calls,
                 organizations, app_clock, db_clock, emails, idx>>

\* poll_once: an exception escapes process_single_email before the message
\* has had any effect; the except clause of the for loop records it and the
\* loop goes on (emails_processed is not raised for this message)
ProcessRaises(p) ==
  /\ pc[p] = "start"
  /\ LET counters == {"errors"}
                       \cup (IF idx[p] = Len(emails[p]) THEN {"total_polls"} ELSE {})
     IN stats' = [c \in DOMAIN stats |->
                    IF c \in counters THEN stats[c] + 1 ELSE stats[c]]
  /\ result' = [result EXCEPT ![p].errors = Append(@, "exception")]
  /\ IF idx[p] = Len(emails[p])
     THEN /\ pc' = [pc EXCEPT ![p] = "idle"]
          /\ UNCHANGED idx
     ELSE /\ pc' = [pc EXCEPT ![p] = "start"]
          /\ idx' = [idx EXCEPT ![p] = @ + 1]
  /\ cur' = [cur EXCEPT ![p] = CurInit]
  /\ UNCHANGED <<credentials, running, thread, ledger, technician_data, ticket_assignments, assign_log, inbox,
                 seen, email_checkpoints, new_tickets, ticket_communications, calls,
                 organizations, app_clock, db_clock, emails>>

(***************************************************************************)
(* The agent and its tables                                                *)
(***************************************************************************)
vars ==
  <<technician_data, ticket_assignments, assign_log, inbox, seen,
    email_checkpoints, new_tickets, ticket_communications, calls,
    organizations, stats, app_clock, db_clock, pc, emails, idx, cur, result,
    running, thread, ledger, credentials>>

StatsInit ==
  [total_polls |-> 0, emails_processed |-> 0, tickets_created |-> 0,
   tickets_updated |-> 0, duplicates_skipped |-> 0, errors |-> 0]

\* the state of the agent after __init__, with empty tables
InitAgent ==
  /\ inbox = <<>>
  /\ seen = {}
  /\ email_checkpoints = <<>>
  /\ new_tickets = {}
  /\ ticket_communications = <<>>
  /\ calls = 0
  /\ stats = StatsInit
  /\ app_clock = 0
  /\ db_clock = 0
  /\ pc = [p \in Pollers |-> "idle"]
  /\ emails = [p \in Pollers |-> <<>>]
  /\ idx = [p \in Pollers |-> 0]
  /\ cur = [p \in Pollers |-> CurInit]
  /\ result = [p \in Pollers |-> ResultInit]

\* a technician table for the polling agent: two technicians on duty, one away
TechniciansOnDuty ==
  [t \in TechIds |->
     [skills |-> CASE t = "tech1" -> Txt_network_vpn
                   [] t = "tech2" -> Txt_printer_hardware
                   [] OTHER -> <<>>,
      current_workload |-> 0,
      status |-> CASE t = "tech1" -> "available"
                   [] t = "tech2" -> "wfh"
                   [] OTHER -> "offline",
      no_tickets_assigned |-> 0, solved_tickets |-> 0]]

\* no workload update committed yet: the workloads the table starts with
LedgerInit(td) ==
  [t \in TechIds |-> [initial |-> td[t].current_workload,
                      assigned |-> 0, released |-> 0, floored |-> 0]]

\* the scheduled loop has been started and a manual trigger may run beside it
Init ==
  /\ InitAgent
  /\ technician_data = TechniciansOnDuty
  /\ ticket_assignments = <<>>
  /\ assign_log = <<>>
  /\ organizations \in BOOLEAN
  /\ running = TRUE
  /\ thread = "loop"
  /\ credentials \in BOOLEAN
  /\ ledger = LedgerInit(technician_data)

Next ==
  \E p \in Pollers :
    \/ PollConnectFails(p)
    \/ PollFetch(p)
    \/ CheckDuplicate(p)
    \/ LookupThread(p)
    \/ AppendToTicket(p)
    \/ AppendFails(p)
    \/ AssignTicket(p)
    \/ InsertTicket(p)
    \/ InsertFails(p)
    \/ WriteCheckpoint(p)
    \/ ProcessRaises(p)
    \/ \E markOk \in BOOLEAN : FinishMessage(p, markOk)

Spec == Init /\ [][Next]_vars

(***************************************************************************)
(* The assignment engine on its own: any table of technicians, then one    *)
(* call of assign_ticket                                                   *)
(***************************************************************************)
InitAssign ==
  /\ InitAgent
  /\ organizations = TRUE
  /\ technician_data \in
       [TechIds -> [skills : SkillTexts, current_workload : 0..MaxWorkload,
                    status : {"available", "wfh", "offline"},
                    no_tickets_assigned : {0}, solved_tickets : {0}]]
  /\ ticket_assignments = <<>>
  /\ assign_log = <<>>
  /\ running = FALSE
  /\ thread = NULL
  /\ credentials = TRUE
  /\ ledger = LedgerInit(technician_data)

\* assign_ticket is called and reads the technicians
AssignCallRead ==
  /\ assign_log = <<>>
  /\ \E ticket_data \in TicketInputs, classification \in ClassificationInputs :
       \E call \in AssignSelect(ticket_data, classification) :
          assign_log' = <<[ticket_data |-> ticket_data,
                           classification |-> classification,
                           available_techs |-> call.available_techs,
                           sel |-> call.sel,
                           returned |-> FALSE]>>
  /\ UNCHANGED <<credentials, running, thread, ledger, technician_data, ticket_assignments, inbox, seen,
                 email_checkpoints, new_tickets, ticket_communications, calls,
                 organizations, stats, app_clock, db_clock, pc, emails, idx, cur,
                 result>>

\* assign_ticket records the assignment, raises the workload and returns
AssignCallWrite ==
  /\ assign_log # <<>>
  /\ ~assign_log[1].returned
  /\ AssignCommit(assign_log[1].ticket_data.ticketnumber,
                  assign_log[1].sel.tech_id, assign_log[1].sel.score)
  /\ assign_log' = <<[assign_log[1] EXCEPT !.returned = TRUE]>>
  /\ UNCHANGED <<credentials, running, thread, ledger, inbox, seen,
                 email_checkpoints, new_tickets, ticket_communications, calls,
                 organizations, stats, app_clock, db_clock, pc, emails, idx, cur,
                 result>>

NextAssign == AssignCallRead \/ AssignCallWrite

SpecAssign == InitAssign /\ [][NextAssign]_vars

(***************************************************************************)
(* The ticket desk: requests that create tickets (web form and e-mail) and *)
(* requests that resolve them, interleaved statement by statement          *)
(***************************************************************************)
MaxRequests == 3

\* the clock readings that fall into one second (the e-mail path keeps the
\* milliseconds in the ticket number, the web form drops them)
MsPerSecond == 2

\* the clock readings told apart
MaxTicks == 2

Requests == 1..MaxRequests

\* T{date}.{HHMMSS}: the ticket number of the web form
WebTicketNumber(now) == <<"T", now \div MsPerSecond>>

\* T{date}.{HHMMSSfff}: the ticket number of the e-mail path
EmailTicketNumber(now) == <<"T", now \div MsPerSecond, now % MsPerSecond>>

\* the locals of a request before it starts
DeskCurInit ==
  [kind |-> "", ticket_number |-> NULL, tech_id |-> None, score |-> 0,
   outcome |-> ""]

\* ticket_data as create_ticket hands it to assign_ticket
DeskTicketData(r) ==
  [ticketnumber |-> cur[r].ticket_number, title |-> Txt_vpn_down,
   description |-> <<>>]

\* the row insert_ticket writes, by the columns resolve_ticket reads and writes
DeskTicketRow(r) ==
  [ticketnumber |-> cur[r].ticket_number,
   assigned_tech_id |-> cur[r].tech_id, status |-> "new"]

\* the ticket numbers the requests have generated so far
KnownNumbers ==
  {cur[q].ticket_number : q \in {x \in Requests : cur[x].kind \in {"web", "email"}}}

DeskRest ==
  <<credentials, assign_log, inbox, seen, email_checkpoints, ticket_communications, calls,
    organizations, stats, emails, idx, result, running, thread>>

\* create_ticket / create_ticket_from_email: the ticket number is generated
\* from the clock before anything else is done
CreateBegin(r, kind) ==
  /\ pc[r] = "idle"
  /\ \A q \in Requests : q < r => pc[q] # "idle"
  /\ \E now \in {app_clock, app_clock + 1} :
        /\ now <= MaxTicks
        /\ app_clock' = now
        /\ cur' = [cur EXCEPT ![r].kind = kind,
                              ![r].ticket_number =
                                 IF kind = "web" THEN WebTicketNumber(now)
                                 ELSE EmailTicketNumber(now)]
  /\ pc' = [pc EXCEPT ![r] = "assign"]
  /\ UNCHANGED <<technician_data, ticket_assignments, new_tickets, db_clock,
                 ledger>>
  /\ UNCHANGED DeskRest

\* assign_ticket up to _record_assignment: the technicians are read and
\* scored, the best match is recorded
CreateAssign(r) ==
  /\ pc[r] = "assign"
  /\ \E classification \in ClassifyResults :
       \E call \in AssignSelect(DeskTicketData(r), classification) :
          /\ cur' = [cur EXCEPT ![r].tech_id = call.sel.tech_id,
                                ![r].score = call.sel.score]
          /\ IF call.sel.tech_id = None
             THEN /\ UNCHANGED ticket_assignments
                  /\ pc' = [pc EXCEPT ![r] = "insert"]
             ELSE /\ ticket_assignments' =
                       _record_assignment(ticket_assignments, cur[r].ticket_number,
                                          call.sel.tech_id, call.sel.score)
                  /\ pc' = [pc EXCEPT ![r] = "workload"]
  /\ UNCHANGED <<technician_data, new_tickets, app_clock, db_clock, ledger>>
  /\ UNCHANGED DeskRest

\* assign_ticket: _update_workload(tech_id, increment=1), then it returns
CreateWorkload(r) ==
  /\ pc[r] = "workload"
  /\ technician_data' = _update_workload(technician_data, cur[r].tech_id, 1)
  /\ ledger' = [ledger EXCEPT ![cur[r].tech_id].assigned = @ + 1]
  /\ pc' = [pc EXCEPT ![r] = "insert"]
  /\ UNCHANGED <<ticket_assignments, new_tickets, app_clock, db_clock, cur>>
  /\ UNCHANGED DeskRest

\* insert_ticket: the INSERT raises when the ticket number is taken
\* (ticketnumber is UNIQUE)
CreateInsert(r) ==
  /\ pc[r] = "insert"
  /\ IF \E row \in new_tickets : row.ticketnumber = cur[r].ticket_number
     THEN /\ UNCHANGED new_tickets
          /\ cur' = [cur EXCEPT ![r].outcome = "insert_failed"]
     ELSE /\ new_tickets' = new_tickets \cup {DeskTicketRow(r)}
          /\ cur' = [cur EXCEPT ![r].outcome = "created"]
  /\ pc' = [pc EXCEPT ![r] = "done"]
  /\ UNCHANGED <<technician_data, ticket_assignments, app_clock, db_clock,
                 ledger>>
  /\ UNCHANGED DeskRest

\* resolve_ticket, step 1: SELECT assigned_tech_id, status FROM new_tickets;
\* 404 when there is no such ticket
ResolveRead(r, ticket_number) ==
  /\ pc[r] = "idle"
  /\ \A q \in Requests : q < r => pc[q] # "idle"
  /\ LET results == {row \in new_tickets : row.ticketnumber = ticket_number}
     IN IF results = {}
        THEN /\ cur' = [cur EXCEPT ![r].kind = "resolve",
                                   ![r].ticket_number = ticket_number,
                                   ![r].outcome = "not_found"]
             /\ pc' = [pc EXCEPT ![r] = "done"]
        ELSE \E ticket \in results :
               /\ cur' = [cur EXCEPT ![r].kind = "resolve",
                                     ![r].ticket_number = ticket_number,
                                     ![r].tech_id = ticket.assigned_tech_id]
               /\ pc' = [pc EXCEPT ![r] = "close"]
  /\ UNCHANGED <<technician_data, ticket_assignments, new_tickets, app_clock,
                 db_clock, ledger>>
  /\ UNCHANGED DeskRest

\* resolve_ticket, step 2: UPDATE new_tickets SET status = closed
ResolveClose(r) ==
  /\ pc[r] = "close"
  /\ new_tickets' =
       {IF row.ticketnumber = cur[r].ticket_number
        THEN [row EXCEPT !.status = "closed"] ELSE row : row \in new_tickets}
  /\ IF cur[r].tech_id # None
     THEN /\ pc' = [pc EXCEPT ![r] = "decrement"]
          /\ UNCHANGED cur
     ELSE /\ pc' = [pc EXCEPT ![r] = "done"]
          /\ cur' = [cur EXCEPT ![r].outcome = "resolved"]
  /\ UNCHANGED <<technician_data, ticket_assignments, app_clock, db_clock,
                 ledger>>
  /\ UNCHANGED DeskRest

\* resolve_ticket, step 3: decrement_workload(tech_id)
ResolveDecrement(r) ==
  /\ pc[r] = "decrement"
  /\ technician_data' = decrement_workload(technician_data, cur[r].tech_id)
  /\ ledger' =
       [ledger EXCEPT
          ![cur[r].tech_id].released = @ + 1,
          ![cur[r].tech_id].floored =
             @ + (IF technician_data[cur[r].tech_id].current_workload = 0
                  THEN 1 ELSE 0)]
  /\ pc' = [pc EXCEPT ![r] = "history"]
  /\ UNCHANGED <<ticket_assignments, new_tickets, app_clock, db_clock, cur>>
  /\ UNCHANGED DeskRest

\* PATCH /tickets/{ticket_number}/status: 404 when there is no such ticket;
\* otherwise DatabaseConnection.update_ticket_status writes the status (and
\* the date columns that go with it) into new_tickets, and nothing else
update_ticket_status(r, ticket_number, new_status) ==
  /\ pc[r] = "idle"
  /\ \A q \in Requests : q < r => pc[q] # "idle"
  /\ IF \A row \in new_tickets : row.ticketnumber # ticket_number
     THEN /\ cur' = [cur EXCEPT ![r].kind = "status",
                                ![r].ticket_number = ticket_number,
                                ![r].outcome = "not_found"]
          /\ UNCHANGED new_tickets
     ELSE /\ new_tickets' =
               {IF row.ticketnumber = ticket_number
                THEN [row EXCEPT !.status = new_status] ELSE row : row \in new_tickets}
          /\ cur' = [cur EXCEPT ![r].kind = "status",
                                ![r].ticket_number = ticket_number,
                                ![r].outcome = "status_updated"]
  /\ pc' = [pc EXCEPT ![r] = "done"]
  /\ UNCHANGED <<technician_data, ticket_assignments, app_clock, db_clock, ledger>>
  /\ UNCHANGED DeskRest

\* a TIMESTAMP value of a column that can also be NULL
Timestamp(now) == <<"at", now>>

\* the history UPDATE of resolve_ticket: the rows of the ticket and technician
\* that are 'assigned' become 'resolved', unassigned_at = NOW()
resolve_history(ta, ticket_number, tech_id, now) ==
  [i \in DOMAIN ta |->
     IF /\ ta[i].ticket_number = ticket_number
        /\ ta[i].tech_id = tech_id
        /\ ta[i].assignment_status = "assigned"
     THEN [ta[i] EXCEPT !.assignment_status = "resolved",
                        !.unassigned_at = Timestamp(now)]
     ELSE ta[i]]

\* resolve_ticket, step 4: the history UPDATE, then the response
ResolveHistory(r) ==
  /\ pc[r] = "history"
  /\ db_clock' = db_clock + 1
  /\ ticket_assignments' =
       resolve_history(ticket_assignments, cur[r].ticket_number, cur[r].tech_id,
                       db_clock')
  /\ cur' = [cur EXCEPT ![r].outcome = "resolved"]
  /\ pc' = [pc EXCEPT ![r] = "done"]
  /\ UNCHANGED <<technician_data, new_tickets, app_clock, ledger>>
  /\ UNCHANGED DeskRest

InitDesk ==
  /\ technician_data = TechniciansOnDuty
  /\ ticket_assignments = <<>>
  /\ assign_log = <<>>
  /\ inbox = <<>>
  /\ seen = {}
  /\ email_checkpoints = <<>>
  /\ new_tickets = {}
  /\ ticket_communications = <<>>
  /\ calls = 0
  /\ organizations = TRUE
  /\ stats = StatsInit
  /\ app_clock = 0
  /\ db_clock = 0
  /\ pc = [r \in Requests |-> "idle"]
  /\ emails = <<>>
  /\ idx = <<>>
  /\ cur = [r \in Requests |-> DeskCurInit]
  /\ result = <<>>
  /\ running = FALSE
  /\ thread = NULL
  /\ credentials = TRUE
  /\ ledger = LedgerInit(technician_data)

NextDesk ==
  \E r \in Requests :
    \/ \E kind \in {"web", "email"} : CreateBegin(r, kind)
    \/ CreateAssign(r)
    \/ CreateWorkload(r)
    \/ CreateInsert(r)
    \/ \E ticket_number \in KnownNumbers : ResolveRead(r, ticket_number)
    \/ ResolveClose(r)
    \/ ResolveDecrement(r)
    \/ ResolveHistory(r)
    \/ \E ticket_number \in KnownNumbers :
       \E new_status \in {"In Progress", "Closed"} :
         update_ticket_status(r, ticket_number, new_status)

SpecDesk == InitDesk /\ [][NextDesk]_vars

(***************************************************************************)
(* The roster: PATCH /technicians/{tech_id}/availability beside a call of  *)
(* assign_ticket, on a technician_data table that has both the column the  *)
(* route writes (availability) and the column the query reads (status)     *)
(***************************************************************************)
\* class TechnicianAvailability
TechnicianAvailability ==
  {"available", "on_leave", "half_day", "wfh", "offline", "out_of_office", "away"}

\* update_technician_availability:
\* UPDATE technician_data SET availability = %s WHERE tech_id = %s
update_technician_availability(tech_id, availability) ==
  /\ technician_data' =
       [technician_data EXCEPT ![tech_id].availability = availability]
  /\ UNCHANGED <<credentials, ticket_assignments, assign_log, inbox, seen, email_checkpoints,
                 new_tickets, ticket_communications, calls, organizations, stats,
                 app_clock, db_clock, pc, emails, idx, cur, result, running,
                 thread, ledger>>

\* the technicians on duty, every one with the column default 'available'
InitRoster ==
  /\ InitAgent
  /\ organizations = TRUE
  /\ technician_data =
       [t \in TechIds |->
          [skills |-> TechniciansOnDuty[t].skills,
           current_workload |-> 0,
           status |-> TechniciansOnDuty[t].status,
           availability |-> "available",
           no_tickets_assigned |-> 0, solved_tickets |-> 0]]
  /\ ticket_assignments = <<>>
  /\ assign_log = <<>>
  /\ running = FALSE
  /\ thread = NULL
  /\ credentials = TRUE
  /\ ledger = LedgerInit(technician_data)

NextRoster ==
  \/ \E tech_id \in TechIds, availability \in TechnicianAvailability :
        update_technician_availability(tech_id, availability)
  \/ AssignCallRead
  \/ AssignCallWrite

SpecRoster == InitRoster /\ [][NextRoster]_vars

(***************************************************************************)
(* The life cycle of the polling agent: start() and stop(), called one at  *)
(* a time (the routes are coroutines of one event loop), and the threads   *)
(* that run _polling_loop                                                  *)
(***************************************************************************)
MaxStarts == 3

\* the threads start() can launch, in the order it launches them
Threads == 1..MaxStarts

\* the Thread object of the i-th thread launched (None is NULL)
ThreadObject(i) == <<"Thread", i>>

\* in _polling_loop and not yet past its last line
LiveLoops == {i \in Threads : pc[i] \in {"tables", "check", "cycle", "sleep"}}

\* the call of start() or stop() last made: what it was, whether it is waiting
\* in join, what it returned, and whether its join timed out
CallInit ==
  [op |-> "", at |-> "idle", returned |-> FALSE, launched |-> NULL,
   timed_out |-> FALSE]

LifeRest ==
  <<credentials, technician_data, ticket_assignments, assign_log, inbox, seen,
    email_checkpoints, new_tickets, ticket_communications, calls, organizations,
    stats, app_clock, db_clock, emails, idx, result, ledger>>

\* start(): False when running; otherwise set the flag and launch a thread
start ==
  /\ cur.at = "idle"
  /\ IF running
     THEN /\ cur' = [CallInit EXCEPT !.op = "start", !.returned = FALSE]
          /\ UNCHANGED <<running, thread, pc>>
     ELSE \E i \in Threads :
            /\ pc[i] = "unborn"
            /\ \A j \in Threads : j < i => pc[j] # "unborn"
            /\ running' = TRUE
            /\ thread' = ThreadObject(i)
            /\ pc' = [pc EXCEPT ![i] = "tables"]
            /\ cur' = [CallInit EXCEPT !.op = "start", !.returned = TRUE,
                                      !.launched = ThreadObject(i)]
  /\ UNCHANGED LifeRest

\* stop() up to the join: False when not running; otherwise clear the flag
stop ==
  /\ cur.at = "idle"
  /\ IF ~running
     THEN /\ cur' = [CallInit EXCEPT !.op = "stop", !.returned = FALSE]
          /\ UNCHANGED running
     ELSE /\ running' = FALSE
          /\ cur' = IF thread # NULL
                    THEN [CallInit EXCEPT !.op = "stop", !.at = "join"]
                    ELSE [CallInit EXCEPT !.op = "stop", !.returned = TRUE]
  /\ UNCHANGED <<thread, pc>>
  /\ UNCHANGED LifeRest

\* stop(): thread.join(timeout=5) comes back, because the thread has ended or
\* because the five seconds are over; thread = None; return True
stop_join ==
  /\ cur.at = "join"
  /\ cur' = [cur EXCEPT !.at = "idle", !.returned = TRUE,
                        !.timed_out = (pc[thread[2]] # "ended")]
  /\ thread' = NULL
  /\ UNCHANGED <<running, pc>>
  /\ UNCHANGED LifeRest

\* _polling_loop: _ensure_tables()
LoopEnsureTables(i) ==
  /\ pc[i] = "tables"
  /\ pc' = [pc EXCEPT ![i] = "check"]
  /\ UNCHANGED <<running, thread, cur>>
  /\ UNCHANGED LifeRest

\* a loop head that does not look at the flag
LoopCheck_ignoring_flag(i) ==
  /\ pc[i] = "check"
  /\ pc' = [pc EXCEPT ![i] = "cycle"]
  /\ UNCHANGED <<running, thread, cur>>
  /\ UNCHANGED LifeRest

\* _polling_loop: while self.running
LoopCheck(i) ==
  /\ pc[i] = "check"
  /\ pc' = [pc EXCEPT ![i] = IF running THEN "cycle" ELSE "ended"]
  /\ UNCHANGED <<running, thread, cur>>
  /\ UNCHANGED LifeRest

\* _polling_loop: poll_once() comes back (an exception is caught and printed);
\* of the cycle only the outcome of connect() is kept: without credentials, or
\* with the server out of reach, the result carries the error and no message
LoopCycle(i) ==
  /\ pc[i] = "cycle"
  /\ pc' = [pc EXCEPT ![i] = "sleep"]
  /\ \E connected \in {c \in BOOLEAN : c => credentials} :
        result' = IF connected
                  THEN ResultInit
                  ELSE [processed |-> <<>>, errors |-> <<"Failed to connect to IMAP">>]
  /\ UNCHANGED <<running, thread, cur>>
  /\ UNCHANGED <<credentials, technician_data, ticket_assignments, assign_log, inbox, seen,
                 email_checkpoints, new_tickets, ticket_communications, calls,
                 organizations, stats, app_clock, db_clock, emails, idx, ledger>>

\* _polling_loop: the wait in ticks of one second is left, by the flag found
\* cleared or by the last tick
LoopSleep(i) ==
  /\ pc[i] = "sleep"
  /\ pc' = [pc EXCEPT ![i] = "check"]
  /\ UNCHANGED <<running, thread, cur>>
  /\ UNCHANGED LifeRest

\* the agent after __init__: not running, no thread
InitLifecycle ==
  /\ technician_data = TechniciansOnDuty
  /\ ticket_assignments = <<>>
  /\ assign_log = <<>>
  /\ inbox = <<>>
  /\ seen = {}
  /\ email_checkpoints = <<>>
  /\ new_tickets = {}
  /\ ticket_communications = <<>>
  /\ calls = 0
  /\ organizations = TRUE
  /\ stats = StatsInit
  /\ app_clock = 0
  /\ db_clock = 0
  /\ pc = [i \in Threads |-> "unborn"]
  /\ emails = <<>>
  /\ idx = <<>>
  /\ cur = CallInit
  /\ result = ResultInit
  /\ running = FALSE
  /\ thread = NULL
  /\ credentials \in BOOLEAN
  /\ ledger = LedgerInit(technician_data)

\* what a loop thread does outside poll_once
LoopStep(i) == LoopEnsureTables(i) \/ LoopCheck(i) \/ LoopSleep(i)

NextLifecycle ==
  \/ start
  \/ stop
  \/ stop_join
  \/ \E i \in Threads :
       \/ LoopEnsureTables(i)
       \/ LoopCheck(i)
       \/ LoopCycle(i)
       \/ LoopSleep(i)

SpecLifecycle == InitLifecycle /\ [][NextLifecycle]_vars

\* the threads are scheduled and the join is bounded by its timeout; nothing
\* is assumed about how long poll_once takes or about when start() and stop()
\* are called
SpecLifecycleFair ==
  /\ SpecLifecycle
  /\ \A i \in Threads : WF_vars(LoopStep(i))
  /\ WF_vars(stop_join)

(***************************************************************************)
(* Properties of the ingestion pipeline (specification Spec)               *)
(***************************************************************************)

\* C1: at most one ticket is ever created for a message_id, whether the message
\* is submitted by successive cycles or by a manual poll beside a scheduled
\* cycle.  (Tickets are told apart by the message body they carry.)
C1_AtMostOneTicketPerMessage ==
  \A m \in MsgIds :
     Cardinality({t \in new_tickets : t.description = Email(m).description}) <= 1

\* C2: no two checkpoint rows share a message_id, and create_checkpoint for a
\* message_id that already has a row leaves the table as it was.
C2_UniqueCheckpoint ==
  /\ [](\A i, j \in DOMAIN email_checkpoints :
          i # j => email_checkpoints[i].message_id # email_checkpoints[j].message_id)
  /\ [][\A p \in Pollers :
          ( /\ pc[p] = "checkpoint"
            /\ pc'[p] = "finish"
            /\ \E i \in DOMAIN email_checkpoints :
                  email_checkpoints[i].message_id = Email(CurMsg(p)).message_id )
          => email_checkpoints' = email_checkpoints]_vars

\* C2, its case: create_checkpoint has run for a message_id that had a row
C2_Witness ==
  \E p \in Pollers :
     /\ pc[p] = "finish"
     /\ cur[p].inserted = "conflict"
     /\ \E i \in DOMAIN email_checkpoints :
           email_checkpoints[i].message_id = Email(CurMsg(p)).message_id

\* C3: the attempt that loses the checkpoint insert ends with the benign
\* duplicate outcome: it does not report ticket_created and counts no error.
C3_LoserEndsAsDuplicate ==
  \A p \in Pollers :
     cur[p].inserted = "conflict" => cur[p].action \notin {"ticket_created", "error"}

\* C4: all checkpoints of one thread_id carry at most one distinct non-null
\* ticket_number, whatever the order in which the messages are processed.
C4_OneTicketPerThread ==
  \A i, j \in DOMAIN email_checkpoints :
     ( /\ email_checkpoints[i].thread_id = email_checkpoints[j].thread_id
       /\ email_checkpoints[i].ticket_number # NULL
       /\ email_checkpoints[j].ticket_number # NULL )
     => email_checkpoints[i].ticket_number = email_checkpoints[j].ticket_number

C6_OneCreatedOneDuplicate ==
  ( /\ Len(inbox) = 1
    /\ \A p \in Pollers :
          /\ pc[p] = "idle"
          /\ emails[p] = inbox
          /\ Len(result[p].processed) = 1
          /\ result[p].processed[1].action \in {"ticket_created", "skipped"} )
  => /\ Cardinality({p \in Pollers :
                       result[p].processed[1].action = "ticket_created"}) = 1
     /\ Cardinality({p \in Pollers :
                       result[p].processed[1].action = "skipped"}) = 1

\* C7: once the lookup of a reply has returned a ticket, that ticket is the one
\* of the checkpoint with the earliest processed_at among the checkpoints of
\* the thread that carry a ticket.
C7_EarliestTicketOfThread ==
  \A p \in Pollers :
     (pc[p] # "idle" /\ cur[p].existing_ticket # NULL)
     => \E i \in DOMAIN email_checkpoints :
           /\ email_checkpoints[i].thread_id = Email(CurMsg(p)).thread_id
           /\ email_checkpoints[i].ticket_number = cur[p].existing_ticket
           /\ \A k \in DOMAIN email_checkpoints :
                 ( /\ email_checkpoints[k].thread_id = Email(CurMsg(p)).thread_id
                   /\ email_checkpoints[k].ticket_number # NULL )
                 => email_checkpoints[i].processed_at <= email_checkpoints[k].processed_at

\* C7, its case: the lookup has returned for a thread with several checkpoints
\* that carry different tickets
C7_Witness ==
  \E p \in Pollers :
     /\ pc[p] = "append"
     /\ cur[p].existing_ticket # NULL
     /\ \E i, k \in DOMAIN email_checkpoints :
           /\ email_checkpoints[i].thread_id = Email(CurMsg(p)).thread_id
           /\ email_checkpoints[k].thread_id = Email(CurMsg(p)).thread_id
           /\ email_checkpoints[i].ticket_number # NULL
           /\ email_checkpoints[k].ticket_number # NULL
           /\ email_checkpoints[i].ticket_number # email_checkpoints[k].ticket_number

\* C8: a reply whose thread has no checkpoint with a ticket at the lookup takes
\* the new-ticket path; in that path it never ends as ticket_updated, and when
\* the ticket is stored it ends as ticket_created.
C8_ReplyWithoutTicketCreates ==
  /\ [][\A p \in Pollers :
          ( /\ pc[p] = "thread"
            /\ pc'[p] # "thread"
            /\ ~ \E i \in DOMAIN email_checkpoints :
                    /\ email_checkpoints[i].thread_id = Email(CurMsg(p)).thread_id
                    /\ email_checkpoints[i].ticket_number # NULL )
          => /\ pc'[p] = "assign"
             /\ cur'[p].existing_ticket = NULL
             /\ cur'[p].ticket_number # NULL]_vars
  /\ [][\A p \in Pollers :
          ( /\ pc[p] = "insert"
            /\ pc'[p] = "checkpoint"
            /\ Email(CurMsg(p)).is_reply
            /\ new_tickets' # new_tickets )
          => /\ cur'[p].action = "ticket_created"
             /\ cur'[p].cp_action = "ticket_created"
             /\ cur'[p].ticket = cur[p].ticket_number]_vars
  /\ [](\A p \in Pollers :
          ( /\ pc[p] \in {"assign", "insert", "checkpoint", "finish"}
            /\ Email(CurMsg(p)).is_reply
            /\ cur[p].ticket_number # NULL )
          => /\ cur[p].existing_ticket = NULL
             /\ cur[p].action \in {"", "ticket_created", "error"})

\* C8, its case: the original of a thread left a checkpoint without a ticket,
\* and the reply has been made a ticket of its own
C8_Witness ==
  \E p \in Pollers :
     /\ pc[p] = "finish"
     /\ Email(CurMsg(p)).is_reply
     /\ cur[p].action = "ticket_created"
     /\ \E i \in DOMAIN email_checkpoints :
           /\ email_checkpoints[i].thread_id = Email(CurMsg(p)).thread_id
           /\ email_checkpoints[i].message_id # Email(CurMsg(p)).message_id
           /\ email_checkpoints[i].ticket_number = NULL

C21_FailedMessageIsRetried ==
  [][\A p \in Pollers :
       (pc[p] = "start" /\ pc'[p] = "finish" /\ cur'[p].action = "skipped")
       => ~\E i \in DOMAIN email_checkpoints :
             /\ email_checkpoints[i].message_id = Email(CurMsg(p)).message_id
             /\ email_checkpoints[i].action_taken = "creation_failed"]_vars

C24_FailureDoesNotAbortBatch ==
  /\ [](\A p \in Pollers :
          pc[p] # "idle"
          => /\ idx[p] \in 1..Len(emails[p])
             /\ Len(result[p].processed) + Len(result[p].errors) = idx[p] - 1)
  /\ [][\A p \in Pollers :
          LET failed == \/ pc[p] = "finish" /\ cur[p].action = "error" /\ pc'[p] # "finish"
                        \/ pc[p] = "start" /\ Len(result'[p].errors) > Len(result[p].errors)
          IN /\ (failed /\ idx[p] < Len(emails[p]))
                  => /\ pc'[p] = "start"
                     /\ idx'[p] = idx[p] + 1
                     /\ emails'[p] = emails[p]
             /\ (pc[p] # "idle" /\ pc'[p] = "idle")
                  => Len(result'[p].processed) + Len(result'[p].errors) = Len(emails[p])]_vars

\* C24, its case: the first message of a cycle raised, or ended as an error,
\* and the cycle is at work on its second message
C24_Witness ==
  /\ \E p \in Pollers :
        /\ idx[p] = 2 /\ pc[p] \notin {"idle", "start"}
        /\ result[p].errors = <<"exception">>
  /\ \E p \in Pollers :
        /\ idx[p] = 2 /\ pc[p] \notin {"idle", "start"}
        /\ Len(result[p].processed) = 1
        /\ result[p].processed[1].action = "error"

\* C25: a connection failure ends the current cycle and nothing else.  A
\* poll_once call that gets its connection takes up the messages it fetched or
\* completes an empty poll; the call that does neither is the one whose
\* connect failed: its result carries an error entry and no processed message,
\* no checkpoint or other row is written, no message is counted, the running
\* flag keeps its value, the call returns (nothing is raised), and the poller
\* is idle again, free to poll on the next tick.
C25_ConnectionFailureEndsCycleOnly ==
  [][(calls' = calls + 1 /\ pc' = pc /\ stats'.total_polls = stats.total_polls)
     => /\ \E p \in Pollers :
              /\ pc[p] = "idle"
              /\ result'[p].errors # <<>>
              /\ result'[p].processed = <<>>
              /\ \A q \in Pollers \ {p} : result'[q] = result[q]
        /\ running' = running
        /\ thread' = thread
        /\ email_checkpoints' = email_checkpoints
        /\ new_tickets' = new_tickets
        /\ ticket_communications' = ticket_communications
        /\ ticket_assignments' = ticket_assignments
        /\ technician_data' = technician_data
        /\ seen' = seen
        /\ inbox' = inbox
        /\ stats'.emails_processed = stats.emails_processed
        /\ stats'.errors = stats.errors]_vars

\* C25, its case: the scheduled loop could not reach the mailbox in its
\* first cycle, the agent is still running, and the loop is at work on the
\* messages its next cycle fetched (the manual poller has not been called)
C25_Witness ==
  /\ calls = 2
  /\ stats.total_polls = 0
  /\ running
  /\ pc["manual"] = "idle" /\ result["manual"] = ResultInit
  /\ pc["loop"] # "idle"
  /\ result["loop"].errors = <<>>

\* C29: a message that process_single_email has finished handling with an
\* outcome other than a duplicate skip (ticket_created, ticket_updated, invalid
\* or error) has exactly one checkpoint row.
C29_HandledMessageHasCheckpoint ==
  \A p \in Pollers :
     (pc[p] = "finish" /\ cur[p].action \in {"ticket_created", "ticket_updated",
                                             "invalid", "error"})
     => Cardinality({i \in DOMAIN email_checkpoints :
                       email_checkpoints[i].message_id = Email(CurMsg(p)).message_id}) = 1

(***************************************************************************)
(* Properties of assign_ticket (specification SpecAssign)                  *)
(***************************************************************************)

\* C9: assign_ticket returns a technician whose status is available or wfh
\* whenever there is one, also when the classification yields no skills or no
\* technician clears the threshold; it returns None only when there is none.
C9_ReturnsWheneverPoolNonEmpty ==
  \A n \in DOMAIN assign_log :
     LET pool == {t \in TechIds : technician_data[t].status \in {"available", "wfh"}}
     IN /\ pool # {} => assign_log[n].sel.tech_id \in pool
        /\ pool = {} => assign_log[n].sel.tech_id = None

\* C9, its case: a call with no required skills has gone through the reranker
\* and returned a technician
C9_Witness ==
  \E n \in DOMAIN assign_log :
     /\ assign_log[n].returned
     /\ assign_log[n].sel.required_skills = {}
     /\ assign_log[n].sel.fallback
     /\ assign_log[n].sel.tech_id # None

\* C10: the technician assign_ticket selects has the highest score among the
\* scored candidates and, among those at that score, the lowest workload; the
\* workloads compared are those of the table when it was read.
C10_BestScoreThenLeastWorkload ==
  \A n \in DOMAIN assign_log :
     LET scored == assign_log[n].sel.scored_techs
     IN /\ assign_log[n].sel.tech_id # None =>
             \E k \in DOMAIN scored :
                /\ scored[k].tech_id = assign_log[n].sel.tech_id
                /\ \A j \in DOMAIN scored :
                      /\ scored[j].score <= scored[k].score
                      /\ scored[j].score = scored[k].score
                           => scored[k].workload <= scored[j].workload
        /\ ~assign_log[n].returned =>
             \A j \in DOMAIN scored :
                scored[j].workload = technician_data[scored[j].tech_id].current_workload

\* C10, its case: two candidates tie at the highest score with different
\* workloads and the call has returned
C10_Witness ==
  \E n \in DOMAIN assign_log :
     /\ assign_log[n].returned
     /\ LET scored == assign_log[n].sel.scored_techs
        IN \E j, k \in DOMAIN scored :
              /\ scored[j].score = scored[k].score
              /\ scored[j].workload # scored[k].workload
              /\ \A i \in DOMAIN scored : scored[i].score <= scored[k].score

\* C11: selection is deterministic: with the table of technicians as the call
\* read it and the same classification, every result the query can give leads
\* to the same technician, also when candidates tie on score and workload.
C11_SameSnapshotSameTechnician ==
  \A n \in DOMAIN assign_log :
     ~assign_log[n].returned =>
        \A again \in AssignSelect(assign_log[n].ticket_data,
                                  assign_log[n].classification) :
           again.sel.tech_id = assign_log[n].sel.tech_id

\* C12: a call of assign_ticket that returns a technician has inserted exactly
\* one row into ticket_assignments, for that ticket and technician, with status
\* 'assigned' and the final score, and has raised that technician's
\* current_workload and no_tickets_assigned by one and nothing else; a call
\* that returns None changes neither table.
C12_AssignmentEffect ==
  [][(/\ assign_log # <<>>
      /\ ~assign_log[1].returned
      /\ assign_log'[1].returned)
     => LET call == assign_log[1]
            tech_id == call.sel.tech_id
        IN IF tech_id = None
           THEN UNCHANGED <<technician_data, ticket_assignments>>
           ELSE /\ Len(ticket_assignments') = Len(ticket_assignments) + 1
                /\ SubSeq(ticket_assignments', 1, Len(ticket_assignments))
                      = ticket_assignments
                /\ ticket_assignments'[Len(ticket_assignments')] =
                      [ticket_number |-> call.ticket_data.ticketnumber,
                       tech_id |-> tech_id,
                       assignment_status |-> "assigned",
                       skill_match_score |-> call.sel.score,
                       unassigned_at |-> NULL]
                /\ \A t \in TechIds :
                      technician_data'[t] =
                        IF t = tech_id
                        THEN [technician_data[t] EXCEPT
                                !.current_workload = @ + 1,
                                !.no_tickets_assigned = @ + 1]
                        ELSE technician_data[t]]_vars

\* C12, its case: a call has returned a technician and its row is recorded
C12_Witness ==
  /\ assign_log # <<>>
  /\ assign_log[1].returned
  /\ assign_log[1].sel.tech_id # None
  /\ Len(ticket_assignments) = 1
  /\ technician_data[assign_log[1].sel.tech_id].no_tickets_assigned = 1

(***************************************************************************)
(* Properties of the ticket desk (specification SpecDesk)                  *)
(***************************************************************************)

\* C13: resolving a ticket that has an assigned technician lowers that
\* technician's current_workload by one, but not below zero, raises the
\* technician's solved_tickets by one, and turns the open row of the ticket and
\* technician in ticket_assignments into 'resolved' with unassigned_at set; no
\* other technician, no other ticket and no other row of ticket_assignments
\* changes.
C13_ResolveEffect ==
  [][\A r \in Requests :
       LET tech_id == cur[r].tech_id
           ticket_number == cur[r].ticket_number
       IN /\ (pc[r] = "close" /\ pc'[r] # "close") =>
               /\ \A row \in new_tickets :
                     row.ticketnumber # ticket_number => row \in new_tickets'
               /\ \A row \in new_tickets' :
                     row.ticketnumber # ticket_number => row \in new_tickets
               /\ UNCHANGED <<technician_data, ticket_assignments>>
          /\ (pc[r] = "decrement" /\ pc'[r] = "history") =>
               /\ tech_id # None
               /\ technician_data'[tech_id] =
                     [technician_data[tech_id] EXCEPT
                        !.current_workload = IF @ = 0 THEN 0 ELSE @ - 1,
                        !.solved_tickets = @ + 1]
               /\ \A t \in TechIds \ {tech_id} :
                     technician_data'[t] = technician_data[t]
               /\ UNCHANGED <<ticket_assignments, new_tickets>>
          /\ (pc[r] = "history" /\ pc'[r] = "done") =>
               /\ DOMAIN ticket_assignments' = DOMAIN ticket_assignments
               /\ \A i \in DOMAIN ticket_assignments :
                     IF /\ ticket_assignments[i].ticket_number = ticket_number
                        /\ ticket_assignments[i].tech_id = tech_id
                        /\ ticket_assignments[i].assignment_status = "assigned"
                     THEN /\ ticket_assignments'[i].assignment_status = "resolved"
                          /\ ticket_assignments'[i].unassigned_at # NULL
                          /\ [ticket_assignments'[i] EXCEPT
                                !.assignment_status = "assigned",
                                !.unassigned_at = NULL] = ticket_assignments[i]
                     ELSE ticket_assignments'[i] = ticket_assignments[i]
               /\ UNCHANGED <<technician_data, new_tickets>>]_vars

\* C13, its case: a ticket with a technician has been resolved while that
\* technician carried work, and its row is now 'resolved'
C13_Witness ==
  \E r \in Requests :
     /\ cur[r].kind = "resolve"
     /\ cur[r].outcome = "resolved"
     /\ cur[r].tech_id # None
     /\ technician_data[cur[r].tech_id].solved_tickets = 1
     /\ ledger[cur[r].tech_id].floored = 0
     /\ \E i \in DOMAIN ticket_assignments :
           /\ ticket_assignments[i].ticket_number = cur[r].ticket_number
           /\ ticket_assignments[i].tech_id = cur[r].tech_id
           /\ ticket_assignments[i].assignment_status = "resolved"
           /\ ticket_assignments[i].unassigned_at # NULL

\* C14: in every reachable state each ticket number has at most one row in
\* ticket_assignments with assignment_status 'assigned', after any sequence of
\* ticket creations (web form and e-mail) and resolutions.
C14_OneOpenAssignmentPerTicket ==
  \A i, j \in DOMAIN ticket_assignments :
     (/\ ticket_assignments[i].ticket_number = ticket_assignments[j].ticket_number
      /\ ticket_assignments[i].assignment_status = "assigned"
      /\ ticket_assignments[j].assignment_status = "assigned")
     => i = j

\* C15: current_workload of every technician is a non-negative integer in every
\* reachable state, whatever the interleaving of assignments and resolutions,
\* resolving at a workload of zero included.
C15_WorkloadNonNegative ==
  \A t \in TechIds : technician_data[t].current_workload \in Nat

\* C15, its case: a resolution has decremented a workload that was zero
C15_Witness ==
  \E t \in TechIds :
     /\ ledger[t].floored > 0
     /\ technician_data[t].current_workload = 0

\* C16: no update of current_workload is lost when assignments and resolutions
\* of the same technician interleave: as long as no decrement met a workload of
\* zero, current_workload is the initial value plus the assignments committed
\* minus the releases (and in general that plus the decrements the floor
\* absorbed).
C16_NoLostUpdate ==
  \A t \in TechIds :
     /\ technician_data[t].current_workload =
          ledger[t].initial + ledger[t].assigned - ledger[t].released
            + ledger[t].floored
     /\ technician_data[t].no_tickets_assigned = ledger[t].assigned
     /\ technician_data[t].solved_tickets = ledger[t].released

\* C16, its case: a resolution and a creation are under way at once, the one
\* has committed its decrement and the other its increment on the same
\* technician, and the floor was not met
C16_Witness ==
  \E r, q \in Requests :
     /\ pc[r] = "history"
     /\ pc[q] = "insert"
     /\ cur[q].tech_id = cur[r].tech_id
     /\ ledger[cur[r].tech_id].assigned >= 2
     /\ ledger[cur[r].tech_id].floored = 0

\* C30: whenever a ticket with a technician is brought to closed status, by
\* resolve_ticket or by a status update to Closed, the release path has run
\* when the request is done: the technician's workload has been released and
\* no row of the ticket and technician in ticket_assignments is still
\* 'assigned'.
C30_ClosingReleases ==
  [][\A r \in Requests :
       (pc[r] # "done" /\ pc'[r] = "done"
        /\ cur'[r].outcome \in {"resolved", "status_updated"})
       => \A row \in new_tickets' :
             (/\ row.ticketnumber = cur'[r].ticket_number
              /\ row.status \in {"closed", "Closed"}
              /\ row.assigned_tech_id # None)
             => /\ ledger'[row.assigned_tech_id].released >= 1
                /\ \A i \in DOMAIN ticket_assignments' :
                      ~(/\ ticket_assignments'[i].ticket_number = row.ticketnumber
                        /\ ticket_assignments'[i].tech_id = row.assigned_tech_id
                        /\ ticket_assignments'[i].assignment_status = "assigned")]_vars

(***************************************************************************)
(* Properties of the roster (specification SpecRoster)                     *)
(***************************************************************************)

\* C17: assign_ticket never selects a technician whose availability is outside
\* {available, wfh}: when a call reads the technicians and selects one, the
\* availability that technician has been given is 'available' or 'wfh'.
C17_SelectedIsAvailable ==
  [][(assign_log = <<>> /\ assign_log' # <<>>)
     => LET tech_id == assign_log'[1].sel.tech_id
        IN tech_id # None =>
             technician_data[tech_id].availability \in AvailableStatuses]_vars

(***************************************************************************)
(* Properties of the life cycle (SpecLifecycle, SpecLifecycleFair)         *)
(***************************************************************************)

\* C18: after any sequence of start() and stop() calls at most one thread is
\* in _polling_loop at a time.
C18_AtMostOneLiveLoop == Cardinality(LiveLoops) <= 1

\* C19: once stop() has cleared the flag, and as long as no start() sets it
\* again, no loop begins a further poll cycle, every loop that is outside
\* poll_once ends, and stop() returns also when the thread it joins has not
\* ended.
C19_StopEndsTheLoop ==
  /\ [][\A i \in Threads : (pc[i] # "cycle" /\ pc'[i] = "cycle") => running]_vars
  /\ \A i \in Threads :
        (~running /\ pc[i] \in {"tables", "check", "sleep"})
          ~> (running \/ pc[i] = "ended")
  /\ (cur.at = "join") ~> (cur.at = "idle" /\ cur.returned)

\* C19, its case: stop() came back from a join that timed out, the flag is
\* still cleared and the loop it had launched has ended since
C19_Witness ==
  /\ cur.op = "stop"
  /\ cur.returned
  /\ cur.timed_out
  /\ ~running
  /\ LiveLoops = {}
  /\ \E i \in Threads : pc[i] = "ended"

\* C26: with the mailbox credentials absent, start() and poll_once() fail
\* fast: start() returns False and leaves the agent not running, and a
\* poll_once() returns a result with an error entry and no processed message.
C26_NoCredentialsFailFast ==
  /\ [][(~credentials /\ ~running /\ cur.at = "idle" /\ cur'.op = "start" /\ cur' # cur)
        => (cur'.returned = FALSE /\ running' = FALSE /\ thread' = thread)]_vars
  /\ [][\A i \in Threads :
          (~credentials /\ pc[i] = "cycle" /\ pc'[i] = "sleep")
          => (result'.errors # <<>> /\ result'.processed = <<>>)]_vars

(***************************************************************************)
(* create_ticket_from_email with its collaborators free to fail, and the    *)
(* outcome process_single_email makes of it: one message of a registered    *)
(* sender, one thread (specification SpecIntake)                            *)
(***************************************************************************)
\* the locals of create_ticket_from_email: how each step went, the
\* classification in use, the fields of ticket_data the classifier filled, the
\* technician, and what process_single_email returns
IntakeInit ==
  [ticket_data |-> <<>>, similar |-> "", classified |-> "", classification |-> <<>>,
   fields |-> {}, assigned |-> "", assigned_tech_id |-> None, inserted |-> "",
   notified |-> "", ticket |-> NULL, action |-> ""]

\* the loop over ISSUETYPE .. STATUS: the fields of ticket_data that get a
\* value, looked up under the upper-case key only
ClassifiedFields(classification) ==
  {f \in {"issuetype", "priority"} :
     LET value == DictGet(classification, IF f = "issuetype" THEN "ISSUETYPE" ELSE "PRIORITY")
     IN value.kind # "none" /\ value.v # <<>>}

IntakeRest ==
  <<credentials, assign_log, inbox, seen, ticket_communications, calls, organizations,
    app_clock, emails, idx, result, running, thread, ledger>>

\* steps 1 to 3: extract_metadata, find_similar_tickets and classify_ticket.
\* find_similar_tickets answers [] or the fallback rows when its search
\* fails, and raises when it cannot get its connection (get_connection is
\* called before its try); step 2 has no try of its own, so that exception
\* goes to the outer except and None is returned.  classify_ticket raises
\* (classification = {}), returns None, or returns a dict.
IntakeClassify ==
  /\ pc = "classify"
  /\ \/ /\ cur' = [cur EXCEPT !.similar = "raised"]
        /\ pc' = "outcome"
     \/ /\ \E similar \in {"found", "failed"} :
           \E classified \in {"raised", "none", "returned"} :
           \E classification \in (IF classified = "returned"
                                  THEN ClassificationInputs ELSE {<<>>}) :
             cur' = [cur EXCEPT !.similar = similar, !.classified = classified,
                                !.classification = classification,
                                !.fields = ClassifiedFields(classification)]
        /\ pc' = "assign"
  /\ UNCHANGED <<technician_data, ticket_assignments, new_tickets, email_checkpoints,
                 stats, db_clock>>
  /\ UNCHANGED IntakeRest

\* step 5: assign_ticket.  It raises at once when classification is None
\* (None has no get), it can raise at its query, and it can raise at
\* _update_workload with the assignment already recorded; the except clause
\* leaves assigned_tech_id None.  Otherwise the technician it returns is put
\* into ticket_data.
IntakeAssign ==
  /\ pc = "assign"
  /\ \/ /\ cur' = [cur EXCEPT !.assigned = "raised"]
        /\ UNCHANGED <<technician_data, ticket_assignments>>
     \/ /\ cur.classified # "none"
        /\ \E call \in AssignSelect(cur.ticket_data, cur.classification) :
              /\ call.sel.tech_id # None
              /\ ticket_assignments' =
                   _record_assignment(ticket_assignments, cur.ticket_data.ticketnumber,
                                      call.sel.tech_id, call.sel.score)
              /\ cur' = [cur EXCEPT !.assigned = "raised"]
              /\ UNCHANGED technician_data
     \/ /\ cur.classified # "none"
        /\ \E call \in AssignSelect(cur.ticket_data, cur.classification) :
              /\ AssignCommit(cur.ticket_data.ticketnumber, call.sel.tech_id, call.sel.score)
              /\ cur' = [cur EXCEPT !.assigned = "returned",
                                    !.assigned_tech_id = call.sel.tech_id]
  /\ pc' = "insert"
  /\ UNCHANGED <<new_tickets, email_checkpoints, stats, db_clock>>
  /\ UNCHANGED IntakeRest

\* the row insert_ticket stores for the message
IntakeRow ==
  [ticketnumber |-> cur.ticket_data.ticketnumber, title |-> cur.ticket_data.title,
   fields |-> cur.fields, assigned_tech_id |-> cur.assigned_tech_id]

\* step 6: insert_ticket stores the row, or raises; the SELECT of the id
\* that follows the insert can raise as well, and then the creation is
\* reported as failed with the row in the table
IntakeInsert ==
  /\ pc = "insert"
  /\ \E inserted \in {"stored", "insert_raised", "select_raised"} :
       /\ cur' = [cur EXCEPT !.inserted = inserted]
       /\ new_tickets' = IF inserted = "insert_raised" THEN new_tickets
                         ELSE new_tickets \cup {IntakeRow}
       /\ pc' = IF inserted = "stored" THEN "notify" ELSE "outcome"
  /\ UNCHANGED <<technician_data, ticket_assignments, email_checkpoints, stats, db_clock>>
  /\ UNCHANGED IntakeRest

\* the notifications, sent or failed, and the return of the ticket number
IntakeNotify ==
  /\ pc = "notify"
  /\ \E notified \in {"sent", "raised"} :
       cur' = [cur EXCEPT !.notified = notified, !.ticket = cur.ticket_data.ticketnumber]
  /\ pc' = "outcome"
  /\ UNCHANGED <<technician_data, ticket_assignments, new_tickets, email_checkpoints,
                 stats, db_clock>>
  /\ UNCHANGED IntakeRest

\* process_single_email after create_ticket_from_email: the checkpoint, the
\* counter and the action returned
IntakeOutcome ==
  /\ pc = "outcome"
  /\ LET created == cur.ticket # NULL
     IN /\ email_checkpoints' =
             create_checkpoint(email_checkpoints, Email("m1"), cur.ticket,
                               IF created THEN "ticket_created" ELSE "creation_failed",
                               db_clock + 1)
        /\ stats' = Bump(IF created THEN "tickets_created" ELSE "errors")
        /\ cur' = [cur EXCEPT !.action = IF created THEN "ticket_created" ELSE "error"]
  /\ db_clock' = db_clock + 1
  /\ pc' = "done"
  /\ UNCHANGED <<technician_data, ticket_assignments, new_tickets>>
  /\ UNCHANGED IntakeRest

\* the agent with a message of a registered sender in hand, about to create
\* its ticket; the technicians start with any workload
InitIntake ==
  /\ technician_data \in
       {[t \in TechIds |-> [TechniciansOnDuty[t] EXCEPT !.current_workload = w[t]]] :
          w \in [TechIds -> 0..MaxWorkload]}
  /\ ticket_assignments = <<>>
  /\ assign_log = <<>>
  /\ inbox = <<"m1">>
  /\ seen = {}
  /\ email_checkpoints = <<>>
  /\ new_tickets = {}
  /\ ticket_communications = <<>>
  /\ calls = 1
  /\ organizations = TRUE
  /\ stats = StatsInit
  /\ app_clock = 1
  /\ db_clock = 0
  /\ pc = "classify"
  /\ emails = <<"m1">>
  /\ idx = 1
  /\ cur \in {[IntakeInit EXCEPT !.ticket_data = td] : td \in TicketInputs}
  /\ result = ResultInit
  /\ running = TRUE
  /\ thread = NULL
  /\ credentials = TRUE
  /\ ledger = LedgerInit(technician_data)

NextIntake ==
  \/ IntakeClassify
  \/ IntakeAssign
  \/ IntakeInsert
  \/ IntakeNotify
  \/ IntakeOutcome

SpecIntake == InitIntake /\ [][NextIntake]_vars

\* C27: in the e-mail path a failure of classification (raised, or an empty
\* or absent result), of the similarity search, of the assignment or of the
\* notification never ends the creation of the ticket: the creation always
\* gets to insert_ticket, and when that and the read that follows it succeed,
\* the ticket is in new_tickets with the fields of the failed steps unset and
\* the message ends as ticket_created.
C27_DegradedStepsStillCreate ==
  /\ [](pc \in {"outcome", "done"} => cur.inserted # "")
  /\ [](pc = "done" /\ cur.inserted = "stored"
     => /\ cur.action = "ticket_created"
        /\ stats.tickets_created = 1 /\ stats.errors = 0
        /\ IntakeRow \in new_tickets
        /\ (cur.classified # "returned" \/ cur.classification = <<>>)
             => IntakeRow.fields = {}
        /\ cur.assigned = "raised" => IntakeRow.assigned_tech_id = None
        /\ \E i \in DOMAIN email_checkpoints :
              /\ email_checkpoints[i].ticket_number = IntakeRow.ticketnumber
              /\ email_checkpoints[i].action_taken = "ticket_created")

(***************************************************************************)
(* The counters of the agent: self.stats[c] += 1 as the interpreter runs   *)
(* it, a load of the item and a store of the sum, in the loop thread and    *)
(* in the thread of a manual poll (specification SpecCounters)              *)
(***************************************************************************)
MaxIncrements == 4

\* the statement a thread is in: the counter and the value it loaded
IncrementInit == [counter |-> "", loaded |-> 0]

CountersRest ==
  <<credentials, technician_data, ticket_assignments, assign_log, inbox, seen,
    email_checkpoints, new_tickets, ticket_communications, organizations,
    app_clock, db_clock, emails, idx, result, running, thread, ledger>>

\* self.stats[c] += 1, first half: the value of the item is loaded
StatLoad(p, c) ==
  /\ pc[p] = "idle"
  /\ calls < MaxIncrements
  /\ calls' = calls + 1
  /\ cur' = [cur EXCEPT ![p] = [counter |-> c, loaded |-> stats[c]]]
  /\ pc' = [pc EXCEPT ![p] = "loaded"]
  /\ UNCHANGED stats
  /\ UNCHANGED CountersRest

\* self.stats[c] += 1, second half: the sum is stored into the item
StatStore(p) ==
  /\ pc[p] = "loaded"
  /\ stats' = [stats EXCEPT ![cur[p].counter] = cur[p].loaded + 1]
  /\ cur' = [cur EXCEPT ![p] = IncrementInit]
  /\ pc' = [pc EXCEPT ![p] = "idle"]
  /\ UNCHANGED calls
  /\ UNCHANGED CountersRest

\* the agent running, with both threads between two statements
InitCounters ==
  /\ inbox = <<>>
  /\ seen = {}
  /\ email_checkpoints = <<>>
  /\ new_tickets = {}
  /\ ticket_communications = <<>>
  /\ calls = 0
  /\ stats = StatsInit
  /\ app_clock = 0
  /\ db_clock = 0
  /\ pc = [p \in Pollers |-> "idle"]
  /\ emails = [p \in Pollers |-> <<>>]
  /\ idx = [p \in Pollers |-> 0]
  /\ result = [p \in Pollers |-> ResultInit]
  /\ cur = [p \in Pollers |-> IncrementInit]
  /\ technician_data = TechniciansOnDuty
  /\ ticket_assignments = <<>>
  /\ assign_log = <<>>
  /\ organizations = TRUE
  /\ running = TRUE
  /\ thread = "loop"
  /\ credentials = TRUE
  /\ ledger = LedgerInit(technician_data)

NextCounters ==
  \E p \in Pollers :
    \/ \E c \in DOMAIN StatsInit : StatLoad(p, c)
    \/ StatStore(p)

SpecCounters == InitCounters /\ [][NextCounters]_vars

\* C28: no counter of the status (total_polls, emails_processed,
\* tickets_created, tickets_updated, duplicates_skipped, errors) ever
\* decreases, whatever runs, a manual poll beside a scheduled cycle included.
C28_CountersNeverDecrease ==
  [][\A c \in DOMAIN StatsInit : stats'[c] >= stats[c]]_vars

(***************************************************************************)
(* parse_email on the header texts of the messages of a conversation, as   *)
(* mail clients write them (specification SpecThread)                      *)
(***************************************************************************)
MaxThread == 3

\* str.strip()
RECURSIVE Strip(_)
Strip(s) ==
  IF s = <<>> THEN <<>>
  ELSE IF Head(s) \in Whitespace THEN Strip(Tail(s))
  ELSE IF s[Len(s)] \in Whitespace THEN Strip(SubSeq(s, 1, Len(s) - 1))
  ELSE s

\* s[1:-1] when s starts with "<" and ends with ">"
StripBrackets(s) ==
  IF s # <<>> /\ Head(s) = "<" /\ s[Len(s)] = ">"
  THEN SubSeq(s, 2, Len(s) - 1) ELSE s

\* re.split(r'[\s\n]+', s) for a stripped, non-empty s: the runs of
\* characters between the runs of white space
RECURSIVE SplitWhitespace(_, _)
SplitWhitespace(s, word) ==
  IF s = <<>> THEN <<word>>
  ELSE IF Head(s) \in Whitespace
       THEN <<word>> \o SplitWhitespace(Strip(s), <<>>)
       ELSE SplitWhitespace(Tail(s), Append(word, Head(s)))

\* a parse_email that takes the last reference for the thread
parse_email_headers_last_reference(msg) ==
  LET message_id == StripBrackets(Strip(msg.Message_ID))
      in_reply_to == StripBrackets(Strip(msg.In_Reply_To))
      references == Strip(msg.References)
      refs == IF references = <<>> THEN <<>> ELSE SplitWhitespace(references, <<>>)
      stripped == [i \in DOMAIN refs |-> StripBrackets(Strip(refs[i]))]
      references_list == SelectSeq(stripped, LAMBDA ref : ref # <<>>)
  IN [message_id |-> message_id,
      in_reply_to |-> in_reply_to,
      references |-> references_list,
      thread_id |-> IF references_list # <<>>
                    THEN references_list[Len(references_list)] ELSE message_id,
      is_reply |-> (in_reply_to # <<>> \/ references_list # <<>>)]

\* parse_email, the thread headers: Message-ID, In-Reply-To and References as
\* texts; angle brackets removed, References split at white space
parse_email_headers(msg) ==
  LET message_id == StripBrackets(Strip(msg.Message_ID))
      in_reply_to == StripBrackets(Strip(msg.In_Reply_To))
      references == Strip(msg.References)
      refs == IF references = <<>> THEN <<>> ELSE SplitWhitespace(references, <<>>)
      stripped == [i \in DOMAIN refs |-> StripBrackets(Strip(refs[i]))]
      references_list == SelectSeq(stripped, LAMBDA ref : ref # <<>>)
  IN [message_id |-> message_id,
      in_reply_to |-> in_reply_to,
      references |-> references_list,
      thread_id |-> IF references_list # <<>> THEN references_list[1] ELSE message_id,
      is_reply |-> (in_reply_to # <<>> \/ references_list # <<>>)]

\* the Message-ID of the k-th message written, and an id in angle brackets
MessageIdOf(k) == <<"m", <<"1", "2", "3", "4", "5", "6", "7", "8", "9">>[k]>>

Bracketed(id) == <<"<">> \o id \o <<">">>

\* a References header: the ids in angle brackets, with sep between them
RECURSIVE JoinReferences(_, _)
JoinReferences(chain, sep) ==
  IF chain = <<>> THEN <<>>
  ELSE IF Len(chain) = 1 THEN Bracketed(chain[1])
  ELSE Bracketed(chain[1]) \o sep \o JoinReferences(Tail(chain), sep)

ThreadRest ==
  <<credentials, technician_data, ticket_assignments, assign_log, seen,
    email_checkpoints, new_tickets, ticket_communications, calls, organizations,
    stats, app_clock, db_clock, pc, idx, cur, result, running, thread, ledger>>

\* a mail client writes the next message of the conversation: a new root, or
\* a reply to an earlier message whose References are the end of the parent's
\* chain followed by the parent's id (earlier ancestors may be left out, the
\* parent never is); the header may be folded
ComposeMessage(parent, keep, bare, sep) ==
  /\ Len(inbox) < MaxThread
  /\ Len(emails) = Len(inbox)
  /\ LET id == MessageIdOf(Len(inbox) + 1)
         full == IF parent = 0 THEN <<>>
                 ELSE Append(inbox[parent].chain, inbox[parent].id)
         chain == SubSeq(full, Len(full) - keep + 1, Len(full))
     IN /\ keep \in (IF parent = 0 THEN {0} ELSE 1..Len(full))
        /\ inbox' = Append(inbox,
             [id |-> id, parent |-> parent, chain |-> chain,
              Message_ID |-> IF bare THEN id ELSE Bracketed(id) \o sep,
              In_Reply_To |-> IF parent = 0 THEN <<>> ELSE Bracketed(inbox[parent].id),
              References |-> JoinReferences(chain, sep)])
  /\ UNCHANGED emails
  /\ UNCHANGED ThreadRest

\* fetch_unread_emails: parse_email on the message just written
ParseMessage ==
  /\ Len(emails) < Len(inbox)
  /\ emails' = Append(emails, parse_email_headers(inbox[Len(emails) + 1]))
  /\ UNCHANGED inbox
  /\ UNCHANGED ThreadRest

InitThread ==
  /\ technician_data = TechniciansOnDuty
  /\ ticket_assignments = <<>>
  /\ assign_log = <<>>
  /\ inbox = <<>>
  /\ seen = {}
  /\ email_checkpoints = <<>>
  /\ new_tickets = {}
  /\ ticket_communications = <<>>
  /\ calls = 0
  /\ organizations = TRUE
  /\ stats = StatsInit
  /\ app_clock = 0
  /\ db_clock = 0
  /\ pc = "fetch"
  /\ emails = <<>>
  /\ idx = 0
  /\ cur = <<>>
  /\ result = ResultInit
  /\ running = FALSE
  /\ thread = NULL
  /\ credentials = TRUE
  /\ ledger = LedgerInit(technician_data)

NextThread ==
  \/ \E parent \in 0..MaxThread, keep \in 0..MaxThread, bare \in BOOLEAN,
        sep \in {<<" ">>, <<"\n", " ">>, <<"\n", "\t">>} :
       /\ parent <= Len(inbox)
       /\ ComposeMessage(parent, keep, bare, sep)
  \/ ParseMessage

SpecThread == InitThread /\ [][NextThread]_vars

RECURSIVE ConversationRoot(_)
ConversationRoot(k) ==
  IF inbox[k].parent = 0 THEN k ELSE ConversationRoot(inbox[k].parent)

\* C32: every reply of a conversation gets the id of the conversation's root
\* message as its thread_id, also when its References header leaves out
\* earlier ancestors, as long as it names its immediate parent.
C32_RepliesResolveToRoot ==
  \A k \in DOMAIN emails :
     inbox[k].parent # 0 => emails[k].thread_id = inbox[ConversationRoot(k)].id

(***************************************************************************)
(* The two scoring passes on their own: six available technicians whose    *)
(* skill texts vary, then one call of assign_ticket                        *)
(***************************************************************************)
Txt_printer_hardware_support ==
  <<"P", "r", "i", "n", "t", "e", "r", ",", " ",
    "H", "a", "r", "d", "w", "a", "r", "e", " ",
    "S", "u", "p", "p", "o", "r", "t">>

\* a skill text of seven words
Txt_network_stack ==
  <<"n", "e", "t", "w", "o", "r", "k", ",", " ", "v", "p", "n", ",", " ",
    "d", "n", "s", ",", " ", "d", "h", "c", "p", ",", " ",
    "w", "i", "f", "i", ",", " ", "l", "a", "n", ",", " ", "w", "a", "n">>

ScoringSkillTexts == {<<>>, Txt_printer_hardware_support, Txt_network_stack}

\* the workloads of the six rows: one pair ties, so the query has two orders
ScoringWorkload ==
  [tech1 |-> 0, tech2 |-> 1, tech3 |-> 1, tech4 |-> 2, tech5 |-> 3, tech6 |-> 4]

\* the rows whose skill text does not vary
ScoringFixedSkills == [tech5 |-> <<>>, tech6 |-> Txt_network_stack]

InitScoring ==
  /\ InitAgent
  /\ organizations = TRUE
  /\ \E skills \in [DOMAIN ScoringWorkload \ DOMAIN ScoringFixedSkills
                       -> ScoringSkillTexts] :
        technician_data =
          [t \in DOMAIN ScoringWorkload |->
             [skills |-> IF t \in DOMAIN skills THEN skills[t]
                         ELSE ScoringFixedSkills[t],
              current_workload |-> ScoringWorkload[t],
              status |-> "available", no_tickets_assigned |-> 0,
              solved_tickets |-> 0]]
  /\ ticket_assignments = <<>>
  /\ assign_log = <<>>
  /\ running = FALSE
  /\ thread = NULL
  /\ credentials = TRUE
  /\ ledger = <<>>

SpecScoring == InitScoring /\ [][NextAssign]_vars

(***************************************************************************)
(* Properties of the two scoring passes (specification SpecScoring)        *)
(***************************************************************************)
\* the number of required keywords found in the lower-cased skill text
C33_Exact(required, skills) ==
  Cardinality({k \in required : IsSubstring(Lower(k), Lower(skills))})

\* the number of the other keywords with a word of more than three characters
\* found in the lower-cased skill text
C33_Partial(required, skills) ==
  Cardinality({k \in required :
                 /\ ~IsSubstring(Lower(k), Lower(skills))
                 /\ \E w \in Split(Lower(k)) :
                       Len(w) > 3 /\ IsSubstring(w, Lower(skills))})

\* 70*E + 30*P, and 0 without keywords or without skill text
C33_Points(required, skills) ==
  IF required = {} \/ skills = <<>> THEN 0
  ELSE 70 * C33_Exact(required, skills) + 30 * C33_Partial(required, skills)

\* x = floor(points / N)  (x = 0 when there are no keywords)
C33_IsFloor(x, points, N) ==
  IF N = 0 THEN x = 0 ELSE x * N <= points /\ points < (x + 1) * N

\* C33: on the primary path the candidates kept are exactly the technicians
\* read whose primary score floor(70*E/N + 30*P/N) is greater than 30, each
\* with that score; the fallback path is taken only when no technician read
\* has a primary score greater than 30.
C33_PrimarySkillScore ==
  \A n \in DOMAIN assign_log :
     LET call == assign_log[n]
         required == call.sel.required_skills
         N == Cardinality(required)
         techs == call.available_techs
         scored == call.sel.scored_techs
         points == [i \in DOMAIN techs |-> C33_Points(required, techs[i].skills)]
         clears == {i \in DOMAIN techs : points[i] >= 31 * N /\ N > 0}
     IN IF call.sel.fallback
        THEN clears = {}
        ELSE /\ \A k \in DOMAIN scored :
                  /\ scored[k].score > 30
                  /\ \E i \in clears :
                        /\ techs[i].tech_id = scored[k].tech_id
                        /\ C33_IsFloor(scored[k].score, points[i], N)
             /\ \A i \in clears :
                  \E k \in DOMAIN scored : scored[k].tech_id = techs[i].tech_id

\* C33, its case: a call on the primary path kept a technician whose score
\* includes a partial credit and is not a whole quotient, and dropped another
\* technician it had read
C33_Witness ==
  \E n \in DOMAIN assign_log :
     LET call == assign_log[n]
         required == call.sel.required_skills
     IN /\ call.returned
        /\ ~call.sel.fallback
        /\ Len(call.sel.scored_techs) < Len(call.available_techs)
        /\ \E i \in DOMAIN call.available_techs :
              /\ C33_Partial(required, call.available_techs[i].skills) > 0
              /\ C33_Points(required, call.available_techs[i].skills)
                    % Cardinality(required) # 0
              /\ \E k \in DOMAIN call.sel.scored_techs :
                    call.sel.scored_techs[k].tech_id = call.available_techs[i].tech_id

\* the words of a text that take part in the overlap
C34_Words(text) == WordSet(Lower(text)) \ common_words

\* round(60 * o / t), halves to the even neighbour
C34_Round(o, t) ==
  LET q == (60 * o) \div t
      r == (60 * o) % t
  IN IF 2 * r < t THEN q
     ELSE IF 2 * r > t THEN q + 1
     ELSE IF q % 2 = 0 THEN q ELSE q + 1

\* floor(60 * o / t)
C34_Floor(o, t) == (60 * o) \div t

\* min(100, base + 10*K) for one technician, base taken by Base(o, t)
C34_Rescore(Base(_, _), call, tech) ==
  LET overlap == Cardinality(C34_Words(TicketText(call.ticket_data))
                               \cap C34_Words(tech.skills))
      K == Cardinality({k \in call.sel.required_skills :
                          IsSubstring(Lower(k), Lower(tech.skills))})
      base == IF overlap > 0
              THEN Base(overlap, Cardinality(C34_Words(tech.skills)))
              ELSE 20
  IN Min2(100, base + 10 * K)

\* on the fallback path the candidates are the 5 best of the technicians read,
\* each with its rescored value
C34_TopFiveRescored(Base(_, _)) ==
  \A n \in DOMAIN assign_log :
     LET call == assign_log[n]
         techs == call.available_techs
         scored == call.sel.scored_techs
         value == [i \in DOMAIN techs |-> C34_Rescore(Base, call, techs[i])]
         kept == {i \in DOMAIN techs :
                    \E k \in DOMAIN scored : scored[k].tech_id = techs[i].tech_id}
     IN call.sel.fallback =>
          /\ Len(scored) = Min2(5, Len(techs))
          /\ Cardinality(kept) = Len(scored)
          /\ \A k \in DOMAIN scored :
                \E i \in kept : /\ techs[i].tech_id = scored[k].tech_id
                                /\ scored[k].score = value[i]
          /\ \A i \in DOMAIN techs \ kept : \A j \in kept : value[i] <= value[j]

\* C34 as stated: when no candidate clears the primary threshold, every
\* technician read is rescored as min(100, base + 10*K) with
\* base = round(60 * overlap / skill words), or 20 without overlap, and the 5
\* highest are kept.
C34_RescoreRounds == C34_TopFiveRescored(C34_Round)

\* C34 as amended: the same with base = floor(60 * overlap / skill words)
C34_RescoreTruncates == C34_TopFiveRescored(C34_Floor)

\* C34, its case: a returned call on the fallback path read six technicians and
\* kept five, one of them with an overlap whose quotient is not whole and a
\* required keyword in its skill text, another without overlap
C34_Witness ==
  \E n \in DOMAIN assign_log :
     LET call == assign_log[n]
         techs == call.available_techs
         scored == call.sel.scored_techs
         words == C34_Words(TicketText(call.ticket_data))
     IN /\ call.returned
        /\ call.sel.fallback
        /\ Len(techs) = 6
        /\ Len(scored) = 5
        /\ \E k \in DOMAIN scored : scored[k].score = 20
        /\ \E i \in DOMAIN techs :
              /\ \E k \in DOMAIN scored : scored[k].tech_id = techs[i].tech_id
              /\ C34_Words(techs[i].skills) # {}
              /\ (60 * Cardinality(words \cap C34_Words(techs[i].skills)))
                    % Cardinality(C34_Words(techs[i].skills)) # 0
              /\ \E r \in call.sel.required_skills :
                    IsSubstring(Lower(r), Lower(techs[i].skills))

C36_ReplyAppendedAtMostOnce ==
  \A j, k \in DOMAIN ticket_communications :
     ticket_communications[j].message_id = ticket_communications[k].message_id
        => j = k

\* C39: an outcome ticket_created or ticket_updated with ticket T is reported
\* for a message only if the checkpoint of that message carries T.
C39_ReportedTicketIsCheckpointed ==
  \A p \in Pollers : \A n \in DOMAIN result[p].processed :
     LET r == result[p].processed[n]
     IN r.action \in {"ticket_created", "ticket_updated"} =>
          \E i \in DOMAIN email_checkpoints :
             /\ email_checkpoints[i].message_id = Email(r.message_id).message_id
             /\ email_checkpoints[i].ticket_number = r.ticket

\* C40: every poll_once call that has returned has raised total_polls by one:
\* with no call under way, total_polls is the number of calls made.
C40_EveryReturnedPollCounted ==
  (\A p \in Pollers : pc[p] = "idle") => stats.total_polls = calls

(***************************************************************************)
(* Further properties of the ticket desk (specification SpecDesk)          *)
(***************************************************************************)
\* C37: with no request under way, current_workload of every technician is the
\* number of rows of ticket_assignments with assignment_status 'assigned' that
\* name the technician, after any sequence of ticket creations and
\* resolutions, a second resolution of the same ticket included.
C37_WorkloadCountsOpenAssignments ==
  (\A r \in Requests : pc[r] \in {"idle", "done"}) =>
     \A t \in TechIds :
        technician_data[t].current_workload =
           Cardinality({i \in DOMAIN ticket_assignments :
                          /\ ticket_assignments[i].tech_id = t
                          /\ ticket_assignments[i].assignment_status = "assigned"})

\* C38: a ticket number that has an 'assigned' row in ticket_assignments, and
\* with it a workload increment, has a row in new_tickets once the request
\* that made the assignment is done: an insertion that fails leaves no
\* assignment behind.
C38_AssignmentOnlyForStoredTicket ==
  LET Creators(S) == {q \in Requests : /\ cur[q].kind \in {"web", "email"}
                                       /\ cur[q].outcome # "insert_failed"
                                       /\ cur[q].tech_id # None
                                       /\ S[q]}
  IN \A r \in Requests :
        (pc[r] = "done" /\ cur[r].outcome = "insert_failed") =>
           /\ Cardinality({j \in DOMAIN ticket_assignments :
                             /\ ticket_assignments[j].ticket_number
                                   = cur[r].ticket_number
                             /\ ticket_assignments[j].assignment_status = "assigned"})
                <= Cardinality(Creators([q \in Requests |->
                                  cur[q].ticket_number = cur[r].ticket_number]))
           /\ \A t \in TechIds :
                 ledger[t].assigned
                    <= Cardinality(Creators([q \in Requests |-> cur[q].tech_id = t]))

====
